---- MODULE Spec2Model ----
(***************************************************************************)
(* Escrow ledger and registration-swap financial engine of the IGCSE       *)
(* Subject Reservation System.  The engine is planned in                   *)
(* DEVELOPMENT_PLAN.md (Phase 3, sections 8, 10.3, 10.5, 11.3, 11.4) and   *)
(* specified in spec.md sections 3-5; the repository holds no service      *)
(* code for it, so the operations below follow those two documents.  The   *)
(* parent-student link check is the one of the link service.               *)
(***************************************************************************)
EXTENDS Integers, Sequences, FiniteSets, TLC

\* ------------------------------------------------------------------ bounds
\* rows ever inserted (registrations, escrow transactions, withdrawal requests)
MaxRows == 2        \* when every operation is available
MaxSwapRows == 4     \* when the operations on existing registrations are
MaxLedgerRows == 4  \* when the ledger, transfer and withdrawal operations are
MaxAuthRows == 2    \* when they are called while links change
MaxPriceRows == 2   \* when they are called while subject prices are edited
\* requests (drop and swap, payment outcomes, link requests) in flight at the same time
MaxRequests == 2
\* transfers in flight at the same time
MaxTransfers == 2
\* rows of parent_student_link at the same time
MaxLinkRows == 1
\* files ever uploaded
MaxFiles == 2

\* amounts a caller passes to transfer and the withdrawal operations, to credit, to debit
Amounts == {2, 3}
CreditAmounts == {3}
DebitAmounts == {2}
\* the subject an admin edits and the price the admin sets
EditedSubjects == {"A"}
EditPrices == {6}

\* ------------------------------------------------------- principals, catalog
Students == {1, 2}
Parents == {3, 4}
Admins == {5}
Users == Students \cup Parents \cup Admins
Callers == Students \cup {4}         \* who calls the student/parent operations
AdminCallers == Admins \cup {3}      \* who calls the admin operations

\* user.grade: student 1 is in grade 10, student 2 in grade 11
getStudentGrade(studentId) == IF studentId = 1 THEN 10 ELSE 11

Sessions == {1}
SessionTypes == {"june", "november"}

Subjects == {"A", "B"}
RegistrationTypes == {"in_school", "external"}
NoPrice == -1       \* priceExternal null: external not offered
NoReg == 0          \* relatedRegistrationId null

\* the subject table as seeded: priceInSchool, priceExternal, isCore
seedSubjects ==
    [subjectId \in Subjects |->
        CASE subjectId = "A" -> [priceInSchool |-> 5, priceExternal |-> 8, isCore |-> TRUE]
          [] subjectId = "B" -> [priceInSchool |-> 8, priceExternal |-> NoPrice,
                                 isCore |-> FALSE]]

VARIABLES
    files,           \* file rows: [id, userId, fileType]
    objects,         \* ids of the file rows whose objects the storage bucket holds
    nextFileId,      \* next file id
    accounts,        \* user rows of the accounts that signed up: [role, grade, studentId]
    subjects,        \* subject rows by id: [priceInSchool, priceExternal, isCore]
    sessionTypeOf,   \* [Sessions -> SessionTypes], fixed when the session is created
    sessionStatus,   \* [Sessions -> {"draft","active","closed"}]
    links,           \* parent_student_link rows: [id, parentId, studentId, status]
    registrations,   \* registration rows
    nextRegId,       \* next registration id
    escrow,          \* studentId -> balance, for the students that have an escrow
    txns,            \* studentId -> sequence of escrow_transaction rows, oldest first
    payments,        \* sequence of payments, one per checkout or unpaid swap: the ids it pays for
    withdrawals,     \* sequence of withdrawal_request rows
    swapLog,         \* what each successful swap returned: [dropped, created]
    lock,            \* studentId -> in-flight transfer holding that escrow, 0 when free
    inflight,        \* requests received and not yet answered, with those answered
    rowLimit,        \* rows the store may hold (model bound, never changes)
    last             \* the last operation: its name, typed result and payable amount

vars == <<files, objects, nextFileId, accounts, subjects, sessionTypeOf, sessionStatus, links, registrations, nextRegId, escrow, txns, payments,
          withdrawals, swapLog, lock, inflight, rowLimit, last>>

getSubject(subjectId) == subjects[subjectId]

\* accounts that signed up and have not been set up
NewAccounts == {6}
NoRole == "none"    \* user.role null
NoGrade == 0        \* user.grade null
NoStudentId == 0    \* user.studentId null

\* an empty file table and bucket, and the new accounts as sign-up leaves them
NoFilesNoAccounts ==
    /\ files = {}
    /\ objects = {}
    /\ nextFileId = 1
    /\ accounts = [a \in NewAccounts |->
                      [role |-> NoRole, grade |-> NoGrade, studentId |-> NoStudentId]]

\* The durable store as one value: an operation maps store to store, and an
\* atomic unit writes the resulting store back in one step.
DB == [registrations |-> registrations, nextRegId |-> nextRegId, escrow |-> escrow,
       txns |-> txns, payments |-> payments, withdrawals |-> withdrawals,
       swapLog |-> swapLog]

Write(D) ==
    /\ registrations' = D.registrations
    /\ nextRegId' = D.nextRegId
    /\ escrow' = D.escrow
    /\ txns' = D.txns
    /\ payments' = D.payments
    /\ withdrawals' = D.withdrawals
    /\ swapLog' = D.swapLog

transaction_NoRollback(before, partial, complete, fault) ==
    IF fault = 0 THEN complete ELSE partial

\* db.transaction: a unit that fails part-way (fault > 0) leaves the store as it
\* was before the unit; `partial` is the store at the point of failure.
transaction(before, partial, complete, fault) ==
    IF fault = 0 THEN complete ELSE before

\* ============================================================ Escrow Ledger
getEscrowBalance(D, studentId) ==
    IF studentId \in DOMAIN D.escrow THEN D.escrow[studentId] ELSE 0

\* getOrCreateEscrow: the escrow row is created lazily with balance 0
getOrCreateEscrow(D, studentId) ==
    IF studentId \in DOMAIN D.escrow THEN D
    ELSE [D EXCEPT !.escrow = [s \in (DOMAIN D.escrow) \cup {studentId} |->
                                  IF s = studentId THEN 0 ELSE D.escrow[s]]]

EscrowTransaction(type, amount, reason, relatedRegistrationId) ==
    [type |-> type, amount |-> amount, reason |-> reason,
     relatedRegistrationId |-> relatedRegistrationId]

creditEscrow_NoLog(D, studentId, amount, reason, relatedRegistrationId) ==
    LET C == getOrCreateEscrow(D, studentId)
    IN  [C EXCEPT !.escrow[studentId] = @ + amount]

\* credit: update the balance and log the transaction, together
creditEscrow(D, studentId, amount, reason, relatedRegistrationId) ==
    LET C == getOrCreateEscrow(D, studentId)
    IN  [C EXCEPT !.escrow[studentId] = @ + amount,
                  !.txns[studentId] = Append(@,
                      EscrowTransaction("credit", amount, reason, relatedRegistrationId))]

canDebit_NoCheck(D, studentId, amount) == TRUE

\* "Sufficient balance for debits": InsufficientFunds if amount > balance
canDebit(D, studentId, amount) == amount <= getEscrowBalance(D, studentId)

debitEscrow_Overwrite(D, studentId, amount, reason, relatedRegistrationId) ==
    LET C == getOrCreateEscrow(D, studentId)
        entry == EscrowTransaction("debit", amount, reason, relatedRegistrationId)
    IN  [C EXCEPT !.escrow[studentId] = @ - amount,
                  !.txns[studentId] = IF @ = << >> THEN << entry >>
                                      ELSE [@ EXCEPT ![Len(@)] = entry]]

\* debit, for a caller that has checked canDebit
debitEscrow(D, studentId, amount, reason, relatedRegistrationId) ==
    LET C == getOrCreateEscrow(D, studentId)
    IN  [C EXCEPT !.escrow[studentId] = @ - amount,
                  !.txns[studentId] = Append(@,
                      EscrowTransaction("debit", amount, reason, relatedRegistrationId))]

RECURSIVE TotalLogged(_, _)
TotalLogged(logs, S) ==
    IF S = {} THEN 0
    ELSE LET s == CHOOSE x \in S : TRUE IN Len(logs[s]) + TotalLogged(logs, S \ {s})

\* room left in the store for n more rows (model bound)
Room(n) == TotalLogged(txns, Students) + (nextRegId - 1) + Len(withdrawals) + n <= rowLimit

RECURSIVE SignedSum(_)
SignedSum(log) ==
    IF log = << >> THEN 0
    ELSE (IF Head(log).type = "credit" THEN Head(log).amount ELSE 0 - Head(log).amount)
         + SignedSum(Tail(log))

\* ================================================ Registration Record Store
Registration(id, studentId, sessionId, subjectId, registrationType, price, status) ==
    [id |-> id, studentId |-> studentId, sessionId |-> sessionId, subjectId |-> subjectId,
     registrationType |-> registrationType, priceAtRegistration |-> price, status |-> status]

exists(D, registrationId) == \E r \in D.registrations : r.id = registrationId
getRegistration(D, registrationId) == CHOOSE r \in D.registrations : r.id = registrationId

\* the non-dropped registrations of (student, session, subject)
nonDropped(D, studentId, sessionId, subjectId) ==
    {r \in D.registrations : /\ r.studentId = studentId /\ r.sessionId = sessionId
                             /\ r.subjectId = subjectId /\ r.status # "dropped"}

isDuplicate_Never(D, studentId, sessionId, subjectId) == FALSE

\* "Student not already registered for subject in session"
isDuplicate(D, studentId, sessionId, subjectId) ==
    nonDropped(D, studentId, sessionId, subjectId) # {}

\* create: a new row with the next id
createRegistration(D, studentId, sessionId, subjectId, registrationType, price, status) ==
    [D EXCEPT !.registrations = @ \cup {Registration(D.nextRegId, studentId, sessionId,
                                            subjectId, registrationType, price, status)},
              !.nextRegId = @ + 1]

setStatus(D, registrationId, status) ==
    [D EXCEPT !.registrations =
        {IF r.id = registrationId THEN [r EXCEPT !.status = status] ELSE r : r \in @}]

canDrop_AnyStatus(D, registrationId) == TRUE

\* drop: confirmed -> dropped only, InvalidTransition from any other state
canDrop(D, registrationId) == getRegistration(D, registrationId).status = "confirmed"

canConfirm_Always(D, registrationId) == TRUE

\* confirm: pending_payment -> confirmed only
canConfirm(D, registrationId) ==
    /\ exists(D, registrationId)
    /\ getRegistration(D, registrationId).status = "pending_payment"

\* ============================================ Pricing & Core-Subject Policy
getCoreSubjects == {s \in Subjects : getSubject(s).isCore}

requiredCoreSubjectIds(grade, sessionType) ==
    IF grade = 10 /\ sessionType = "june" THEN getCoreSubjects ELSE {}

validateCoreSubjects_Skip(studentId, sessionType, subjectIds) == TRUE

\* validateCoreSubjects: every core subject is among subjectIds (grade 10, June)
validateCoreSubjects(studentId, sessionType, subjectIds) ==
    IF getStudentGrade(studentId) # 10 \/ sessionType # "june" THEN TRUE
    ELSE \A id \in getCoreSubjects : id \in subjectIds

isLocked_Never(reg) == FALSE

\* core subject of a grade-10 student in a June session
isLocked(reg) ==
    /\ getSubject(reg.subjectId).isCore
    /\ getStudentGrade(reg.studentId) = 10
    /\ sessionTypeOf[reg.sessionId] = "june"

\* price snapshot: priceInSchool or priceExternal (NoPrice when not offered)
priceOf(subjectId, registrationType) ==
    IF registrationType = "in_school" THEN getSubject(subjectId).priceInSchool
    ELSE getSubject(subjectId).priceExternal

\* diff = newSubject.price - currentRegistration.priceAtRegistration
swapDelta(oldPrice, newPrice) == newPrice - oldPrice

\* ============================================================ authorization
isParentLinkedToStudent(parentId, studentId) ==
    \E l \in links : /\ l.parentId = parentId /\ l.studentId = studentId
                     /\ l.status = "approved"

canActFor_Anyone(userId, targetStudentId) == TRUE

isAdmin_Anyone(userId) == TRUE

\* the admin endpoints are for users with the admin role
isAdmin(userId) == userId \in Admins

\* acting on behalf: the student, or a parent with an approved link
canActFor(userId, targetStudentId) ==
    \/ targetStudentId = userId
    \/ (userId \in Parents /\ isParentLinkedToStudent(userId, targetStudentId))

\* =============================================================== operations
Outcome(op, result, amountDue) == [op |-> op, result |-> result, amountDue |-> amountDue]

\* A rejected request leaves the store as it was, so the requests that can follow
\* it are the ones that can follow the state before it: behaviours are explored up
\* to their first rejected request.
Ready == last.result = "ok"

Frame == UNCHANGED <<files, objects, nextFileId, accounts, subjects, sessionTypeOf, sessionStatus, links, lock, inflight, rowLimit>>
Rejected == UNCHANGED <<registrations, nextRegId, escrow, txns, payments, withdrawals, swapLog>>

canActivate_Always(sessionId) == TRUE

\* draft -> active -> closed, forward only
canActivate(sessionId) == sessionStatus[sessionId] = "draft"
canClose(sessionId) == sessionStatus[sessionId] = "active"

ActivateSession(sessionId) ==
    /\ Ready
    /\ IF canActivate(sessionId)
       THEN /\ sessionStatus' = [sessionStatus EXCEPT ![sessionId] = "active"]
            /\ last' = Outcome("activateSession", "ok", 0)
       ELSE /\ sessionStatus' = sessionStatus
            /\ last' = Outcome("activateSession", "InvalidTransition", 0)
    /\ Rejected
    /\ UNCHANGED <<files, objects, nextFileId, accounts, subjects, sessionTypeOf, links, lock, inflight, rowLimit>>

CloseSession(sessionId) ==
    /\ Ready
    /\ IF canClose(sessionId)
       THEN /\ sessionStatus' = [sessionStatus EXCEPT ![sessionId] = "closed"]
            /\ last' = Outcome("closeSession", "ok", 0)
       ELSE /\ sessionStatus' = sessionStatus
            /\ last' = Outcome("closeSession", "InvalidTransition", 0)
    /\ Rejected
    /\ UNCHANGED <<files, objects, nextFileId, accounts, subjects, sessionTypeOf, links, lock, inflight, rowLimit>>

Credit(studentId, amount) ==
    /\ Ready
    /\ Room(1)
    /\ Write(creditEscrow(DB, studentId, amount, "drop", NoReg))
    /\ last' = Outcome("credit", "ok", 0)
    /\ Frame

Debit(studentId, amount) ==
    /\ Ready
    /\ IF canDebit(DB, studentId, amount)
       THEN /\ Room(1)
            /\ Write(debitEscrow(DB, studentId, amount, "payment_applied", NoReg))
            /\ last' = Outcome("debit", "ok", 0)
       ELSE /\ Rejected
            /\ last' = Outcome("debit", "InsufficientFunds", 0)
    /\ Frame

\* ------------------------------------------------------------------ checkout
\* lines: a function from the requested subjects to their registration types
Lines ==
    UNION {[S -> RegistrationTypes] : S \in {T \in SUBSET Subjects : Cardinality(T) = 1}}
    \cup UNION {[S -> {"in_school"}] : S \in {T \in SUBSET Subjects : Cardinality(T) = 2}}

RECURSIVE total(_, _)
total(lines, S) ==
    IF S = {} THEN 0
    ELSE LET s == CHOOSE x \in S : TRUE IN priceOf(s, lines[s]) + total(lines, S \ {s})

RECURSIVE createPendingRegistrations(_, _, _, _, _)
createPendingRegistrations(D, studentId, sessionId, lines, S) ==
    IF S = {} THEN D
    ELSE LET s == CHOOSE x \in S : TRUE
         IN  createPendingRegistrations(
                 createRegistration(D, studentId, sessionId, s, lines[s],
                                    priceOf(s, lines[s]), "pending_payment"),
                 studentId, sessionId, lines, S \ {s})

\* the subjects of the student's confirmed registrations in the session
confirmedSubjects(D, studentId, sessionId) ==
    {r.subjectId : r \in {x \in D.registrations : /\ x.studentId = studentId
                                                  /\ x.sessionId = sessionId
                                                  /\ x.status = "confirmed"}}

Min_First(a, b) == a

Min(a, b) == IF a <= b THEN a ELSE b

\* the store after a successful checkout: escrow applied, registrations created
checkout(D, studentId, sessionId, lines) ==
    LET applied == Min(getEscrowBalance(D, studentId), total(lines, DOMAIN lines))
        D1 == IF applied > 0
              THEN debitEscrow(D, studentId, applied, "payment_applied", NoReg)
              ELSE D
        D2 == createPendingRegistrations(D1, studentId, sessionId, lines, DOMAIN lines)
    IN  [D2 EXCEPT !.payments = Append(@, D.nextRegId .. (D2.nextRegId - 1))]

\* access is validated by the route handler, then the checks "Before Registration"
checkoutResult(D, studentId, sessionId, lines, actingUserId) ==
    IF ~canActFor(actingUserId, studentId) THEN "Unauthorized"
    ELSE IF sessionStatus[sessionId] # "active" THEN "SessionNotActive"
    ELSE IF \E s \in DOMAIN lines : isDuplicate(D, studentId, sessionId, s)
         THEN "DuplicateRegistration"
    ELSE IF ~validateCoreSubjects(studentId, sessionTypeOf[sessionId],
                confirmedSubjects(D, studentId, sessionId) \cup DOMAIN lines)
         THEN "CoreSubjectsMissing"
    ELSE IF \E s \in DOMAIN lines : priceOf(s, lines[s]) = NoPrice
         THEN "ExternalNotAvailable"
    ELSE "ok"

Checkout(studentId, sessionId, lines, actingUserId) ==
    LET result == checkoutResult(DB, studentId, sessionId, lines, actingUserId)
        applied == Min(getEscrowBalance(DB, studentId), total(lines, DOMAIN lines))
    IN  /\ Ready
        /\ IF result = "ok"
           THEN /\ Room(Cardinality(DOMAIN lines) + (IF applied > 0 THEN 1 ELSE 0))
                /\ Write(checkout(DB, studentId, sessionId, lines))
           ELSE Rejected
        /\ last' = Outcome("checkout", result,
                       IF result = "ok" THEN total(lines, DOMAIN lines) - applied ELSE 0)
        /\ Frame

\* ------------------------------------------------- payment confirmation/failure
RECURSIVE confirmAll(_, _)
confirmAll(D, ids) ==
    IF ids = {} THEN D
    ELSE LET i == CHOOSE x \in ids : TRUE
         IN  confirmAll(setStatus(D, i, "confirmed"), ids \ {i})

ConfirmPayment(paymentId) ==
    /\ Ready
    /\ paymentId \in DOMAIN payments
    /\ IF \A i \in payments[paymentId] : canConfirm(DB, i)
       THEN /\ Write(confirmAll(DB, payments[paymentId]))
            /\ last' = Outcome("confirmPayment", "ok", 0)
       ELSE /\ Rejected
            /\ last' = Outcome("confirmPayment", "InvalidTransition", 0)
    /\ Frame

\* release: the pending registrations of the payment are deleted
release(D, ids) ==
    [D EXCEPT !.registrations = {r \in @ : ~(r.id \in ids /\ r.status = "pending_payment")}]

FailPayment(paymentId) ==
    /\ Ready
    /\ paymentId \in DOMAIN payments
    /\ IF \E i \in payments[paymentId] : canConfirm(DB, i)
       THEN /\ Write(release(DB, payments[paymentId]))
            /\ last' = Outcome("failPayment", "ok", 0)
       ELSE /\ Rejected
            /\ last' = Outcome("failPayment", "InvalidTransition", 0)
    /\ Frame

\* ---------------------------------------------------------------------- drop
\* validateCanModify: session open, ownership, confirmed, not core
validateCanModify(D, registrationId, userId) ==
    IF ~exists(D, registrationId) THEN "NotFound"
    ELSE LET reg == getRegistration(D, registrationId)
         IN  IF sessionStatus[reg.sessionId] # "active" THEN "SessionNotActive"
             ELSE IF ~canActFor(userId, reg.studentId) THEN "Unauthorized"
             ELSE IF ~canDrop(D, registrationId) THEN "InvalidTransition"
             ELSE IF isLocked(reg) THEN "CoreSubjectLocked"
             ELSE "ok"

dropSteps_NoCredit(D, registrationId, n) ==
    IF n >= 1 THEN setStatus(D, registrationId, "dropped") ELSE D

dropSteps_LivePrice(D, registrationId, n) ==
    LET reg == getRegistration(D, registrationId)
        D1 == IF n >= 1 THEN setStatus(D, registrationId, "dropped") ELSE D
    IN  IF n >= 2
        THEN creditEscrow(D1, reg.studentId, priceOf(reg.subjectId, reg.registrationType),
                          "drop", registrationId)
        ELSE D1

\* the store after the first n steps of the drop unit:
\* 1 registration status, 2 escrow credit with its transaction
dropSteps(D, registrationId, n) ==
    LET reg == getRegistration(D, registrationId)
        D1 == IF n >= 1 THEN setStatus(D, registrationId, "dropped") ELSE D
    IN  IF n >= 2
        THEN creditEscrow(D1, reg.studentId, reg.priceAtRegistration, "drop", registrationId)
        ELSE D1

Drop(registrationId, actingUserId, fault) ==
    LET result == validateCanModify(DB, registrationId, actingUserId)
    IN  /\ Ready
        /\ IF result = "ok"
           THEN /\ Room(1)
                /\ Write(transaction(DB, dropSteps(DB, registrationId, fault),
                                      dropSteps(DB, registrationId, 2), fault))
           ELSE fault = 0 /\ Rejected
        /\ last' = Outcome("drop", IF result = "ok" /\ fault > 0 THEN "StorageFailure"
                                   ELSE result, 0)
        /\ Frame

\* ---------------------------------------------------------------------- swap
swapResult(D, registrationId, newSubjectId, newType, userId) ==
    LET valid == validateCanModify(D, registrationId, userId)
        reg == getRegistration(D, registrationId)
    IN  IF valid # "ok" THEN valid
        ELSE IF isDuplicate(D, reg.studentId, reg.sessionId, newSubjectId)
             THEN "DuplicateRegistration"
        ELSE IF priceOf(newSubjectId, newType) = NoPrice THEN "ExternalNotAvailable"
        ELSE IF ~validateCoreSubjects(reg.studentId, sessionTypeOf[reg.sessionId],
                    (confirmedSubjects(D, reg.studentId, reg.sessionId) \ {reg.subjectId})
                        \cup {newSubjectId})
             THEN "CoreSubjectsMissing"
        ELSE "ok"

applyDelta_NoRefund(D, studentId, delta, registrationId) ==
    IF delta > 0 /\ canDebit(D, studentId, delta)
    THEN debitEscrow(D, studentId, delta, "swap_charge", registrationId)
    ELSE D

\* the ledger entry of a price difference: a charge the escrow covers, a refund, or none
applyDelta(D, studentId, delta, registrationId) ==
    IF delta > 0 /\ canDebit(D, studentId, delta)
    THEN debitEscrow(D, studentId, delta, "swap_charge", registrationId)
    ELSE IF delta < 0
    THEN creditEscrow(D, studentId, 0 - delta, "swap_refund", registrationId)
    ELSE D

\* what the caller still has to pay for a price difference
payable(D, studentId, delta) ==
    IF delta > 0 /\ ~canDebit(D, studentId, delta) THEN delta ELSE 0

\* the store after the first n steps of the swap unit:
\* 1 drop(A), 2 ledger entry for the delta, 3 create B (confirmed when nothing is
\* left to pay, else pending_payment with a payment of its own)
swapSteps(D, registrationId, newSubjectId, newType, n) ==
    LET reg == getRegistration(D, registrationId)
        newPrice == priceOf(newSubjectId, newType)
        delta == swapDelta(reg.priceAtRegistration, newPrice)
        due == payable(D, reg.studentId, delta)
        D1 == IF n >= 1 THEN setStatus(D, registrationId, "dropped") ELSE D
        D2 == IF n >= 2 THEN applyDelta(D1, reg.studentId, delta, registrationId) ELSE D1
        D3 == createRegistration(D2, reg.studentId, reg.sessionId, newSubjectId, newType,
                  newPrice, IF due = 0 THEN "confirmed" ELSE "pending_payment")
    IN  IF n >= 3
        THEN [D3 EXCEPT !.swapLog = @ \cup {[dropped |-> registrationId,
                                             created |-> D2.nextRegId]},
                        !.payments = IF due = 0 THEN @ ELSE Append(@, {D2.nextRegId})]
        ELSE D2

Swap(registrationId, newSubjectId, newType, actingUserId, fault) ==
    LET result == swapResult(DB, registrationId, newSubjectId, newType, actingUserId)
        reg == getRegistration(DB, registrationId)
        delta == swapDelta(reg.priceAtRegistration, priceOf(newSubjectId, newType))
        due == payable(DB, reg.studentId, delta)
    IN  /\ Ready
        /\ IF result = "ok"
           THEN /\ Room(IF delta = 0 \/ due > 0 THEN 1 ELSE 2)
                /\ Write(transaction(DB,
                       swapSteps(DB, registrationId, newSubjectId, newType, fault),
                       swapSteps(DB, registrationId, newSubjectId, newType, 3), fault))
                /\ last' = Outcome("swap", IF fault > 0 THEN "StorageFailure" ELSE "ok",
                                   IF fault > 0 THEN 0 ELSE due)
           ELSE /\ fault = 0
                /\ Rejected
                /\ last' = Outcome("swap", result, 0)
        /\ Frame

\* --------------------------------------------------------------- switch type
switchResult(D, registrationId, newType, userId) ==
    LET valid == validateCanModify(D, registrationId, userId)
        reg == getRegistration(D, registrationId)
    IN  IF valid # "ok" THEN valid
        ELSE IF priceOf(reg.subjectId, newType) = NoPrice THEN "ExternalNotAvailable"
        ELSE IF payable(D, reg.studentId,
                    swapDelta(reg.priceAtRegistration, priceOf(reg.subjectId, newType))) > 0
             THEN "PaymentRequired"
        ELSE "ok"

switchSteps_PriceOnly(D, registrationId, newType, n) ==
    LET reg == getRegistration(D, registrationId)
    IN  IF n >= 1
        THEN [D EXCEPT !.registrations =
                 {IF r.id = registrationId
                  THEN [r EXCEPT !.registrationType = newType,
                                 !.priceAtRegistration = priceOf(reg.subjectId, newType)]
                  ELSE r : r \in @}]
        ELSE D

\* the store after the first n steps of the unit: 1 the row's type and price,
\* 2 the ledger entry for the delta
switchSteps(D, registrationId, newType, n) ==
    LET reg == getRegistration(D, registrationId)
        newPrice == priceOf(reg.subjectId, newType)
        delta == swapDelta(reg.priceAtRegistration, newPrice)
        D1 == IF n >= 1
              THEN [D EXCEPT !.registrations =
                       {IF r.id = registrationId
                        THEN [r EXCEPT !.registrationType = newType,
                                       !.priceAtRegistration = newPrice]
                        ELSE r : r \in @}]
              ELSE D
    IN  IF n >= 2 THEN applyDelta(D1, reg.studentId, delta, registrationId) ELSE D1

SwitchType(registrationId, newType, actingUserId, fault) ==
    LET result == switchResult(DB, registrationId, newType, actingUserId)
        reg == getRegistration(DB, registrationId)
        delta == swapDelta(reg.priceAtRegistration, priceOf(reg.subjectId, newType))
    IN  /\ Ready
        /\ IF result = "ok"
           THEN /\ Room(IF delta = 0 THEN 0 ELSE 1)
                /\ Write(transaction(DB, switchSteps(DB, registrationId, newType, fault),
                                     switchSteps(DB, registrationId, newType, 2), fault))
                /\ last' = Outcome("switchType",
                                   IF fault > 0 THEN "StorageFailure" ELSE "ok", 0)
           ELSE /\ fault = 0
                /\ Rejected
                /\ last' = Outcome("switchType", result,
                       IF result = "PaymentRequired"
                       THEN swapDelta(reg.priceAtRegistration, priceOf(reg.subjectId, newType))
                       ELSE 0)
        /\ Frame

\* ------------------------------------------------------------------ transfer
transferResult_NoCheck(D, fromStudentId, toStudentId, amount, parentId) == "ok"

\* "Sufficient balance for debits", then "both students linked to same parent"
transferResult(D, fromStudentId, toStudentId, amount, parentId) ==
    IF ~canDebit(D, fromStudentId, amount) THEN "InsufficientFunds"
    ELSE IF ~(/\ parentId \in Parents
              /\ isParentLinkedToStudent(parentId, fromStudentId)
              /\ isParentLinkedToStudent(parentId, toStudentId)) THEN "Unauthorized"
    ELSE "ok"

transferSteps_DebitOnly(D, fromStudentId, toStudentId, amount, n) ==
    IF n >= 1 THEN debitEscrow(D, fromStudentId, amount, "transfer_out", NoReg) ELSE D

\* the store after the first n legs: 1 the debit of the source, 2 the credit of
\* the destination
transferSteps(D, fromStudentId, toStudentId, amount, n) ==
    LET D1 == IF n >= 1 THEN debitEscrow(D, fromStudentId, amount, "transfer_out", NoReg)
              ELSE D
    IN  IF n >= 2 THEN creditEscrow(D1, toStudentId, amount, "transfer_in", NoReg) ELSE D1

transferEscrow(D, fromStudentId, toStudentId, amount, fault) ==
    transaction(D, transferSteps(D, fromStudentId, toStudentId, amount, fault),
                transferSteps(D, fromStudentId, toStudentId, amount, 2), fault)

Transfer(fromStudentId, toStudentId, amount, parentId, fault) ==
    LET result == transferResult(DB, fromStudentId, toStudentId, amount, parentId)
    IN  /\ Ready
        /\ fromStudentId # toStudentId
        /\ IF result = "ok"
           THEN /\ Room(2)
                /\ Write(transferEscrow(DB, fromStudentId, toStudentId, amount, fault))
                /\ last' = Outcome("transfer",
                                   IF fault > 0 THEN "StorageFailure" ELSE "ok", 0)
           ELSE /\ fault = 0
                /\ Rejected
                /\ last' = Outcome("transfer", result, 0)
        /\ Frame

\* ---------------------------------------------------------------- withdrawals
NoAmount == -1      \* releasedAmount null

WithdrawalRequest(studentId, requestedAmount, releasedAmount, status) ==
    [studentId |-> studentId, requestedAmount |-> requestedAmount,
     releasedAmount |-> releasedAmount, status |-> status]

\* createWithdrawalRequest: the request may exceed the balance
RequestWithdrawal(studentId, amount, requestedBy) ==
    /\ Ready
    /\ IF canActFor(requestedBy, studentId)
       THEN /\ Room(1)
            /\ Write([DB EXCEPT !.withdrawals =
                         Append(@, WithdrawalRequest(studentId, amount, NoAmount, "pending"))])
            /\ last' = Outcome("requestWithdrawal", "ok", 0)
       ELSE /\ Rejected
            /\ last' = Outcome("requestWithdrawal", "Unauthorized", 0)
    /\ Frame

fulfillResult_NoBound(D, requestId, releasedAmount) ==
    IF requestId \notin DOMAIN D.withdrawals THEN "NotFound"
    ELSE IF D.withdrawals[requestId].status # "pending" THEN "InvalidTransition"
    ELSE "ok"

\* releasedAmount <= requestedAmount and <= current balance, else InsufficientFunds
fulfillResult(D, requestId, releasedAmount) ==
    IF requestId \notin DOMAIN D.withdrawals THEN "NotFound"
    ELSE LET req == D.withdrawals[requestId]
         IN  IF releasedAmount > req.requestedAmount
                \/ ~canDebit(D, req.studentId, releasedAmount) THEN "InsufficientFunds"
             ELSE IF req.status # "pending" THEN "InvalidTransition"
             ELSE "ok"

fulfillWithdrawalRequest_AlwaysFulfilled(D, requestId, releasedAmount) ==
    LET req == D.withdrawals[requestId]
        D1 == debitEscrow(D, req.studentId, releasedAmount, "withdrawal", NoReg)
    IN  [D1 EXCEPT !.withdrawals[requestId] =
            [@ EXCEPT !.releasedAmount = releasedAmount, !.status = "fulfilled"]]

\* debit(releasedAmount, withdrawal); fulfilled when all of it is released
fulfillWithdrawalRequest(D, requestId, releasedAmount) ==
    LET req == D.withdrawals[requestId]
        D1 == debitEscrow(D, req.studentId, releasedAmount, "withdrawal", NoReg)
    IN  [D1 EXCEPT !.withdrawals[requestId] =
            [@ EXCEPT !.releasedAmount = releasedAmount,
                      !.status = IF releasedAmount = req.requestedAmount
                                 THEN "fulfilled" ELSE "partially_fulfilled"]]

FulfillWithdrawal(requestId, releasedAmount, adminId) ==
    LET result == IF ~isAdmin(adminId) THEN "Unauthorized"
                  ELSE fulfillResult(DB, requestId, releasedAmount)
    IN  /\ Ready
        /\ IF result = "ok"
           THEN /\ Room(1)
                /\ Write(fulfillWithdrawalRequest(DB, requestId, releasedAmount))
           ELSE Rejected
        /\ last' = Outcome("fulfillWithdrawal", result, 0)
        /\ Frame

RejectWithdrawal(requestId, adminId) ==
    /\ Ready
    /\ requestId \in DOMAIN withdrawals
    /\ IF ~isAdmin(adminId)
       THEN /\ Rejected
            /\ last' = Outcome("rejectWithdrawal", "Unauthorized", 0)
       ELSE IF withdrawals[requestId].status = "pending"
       THEN /\ Write([DB EXCEPT !.withdrawals[requestId].status = "rejected"])
            /\ last' = Outcome("rejectWithdrawal", "ok", 0)
       ELSE /\ Rejected
            /\ last' = Outcome("rejectWithdrawal", "InvalidTransition", 0)
    /\ Frame

Start(types, status, limit) ==
    /\ NoFilesNoAccounts
    /\ subjects = seedSubjects
    /\ sessionTypeOf \in [Sessions -> types]
    /\ sessionStatus = [s \in Sessions |-> status]
    /\ links = {[id |-> 1, parentId |-> 3, studentId |-> 1, status |-> "approved"],
                [id |-> 2, parentId |-> 3, studentId |-> 2, status |-> "approved"],
                [id |-> 3, parentId |-> 4, studentId |-> 1, status |-> "approved"],
                [id |-> 4, parentId |-> 4, studentId |-> 2, status |-> "pending"]}
    /\ registrations = {}
    /\ nextRegId = 1
    /\ escrow = << >>
    /\ txns = [s \in Students |-> << >>]
    /\ payments = << >>
    /\ withdrawals = << >>
    /\ swapLog = {}
    /\ lock = [s \in Students |-> 0]
    /\ inflight = << >>
    /\ rowLimit = limit
    /\ last = Outcome("init", "ok", 0)

\* ------------------------------------------------ every operation, one June session
Init == Start({"june"}, "draft", MaxRows)

Next ==
    \/ \E s \in Sessions : ActivateSession(s)
    \/ \E s \in Sessions : CloseSession(s)
    \/ \E s \in Students, a \in CreditAmounts : Credit(s, a)
    \/ \E s \in Students, a \in DebitAmounts : Debit(s, a)
    \/ \E st \in Students, se \in Sessions, l \in Lines, u \in Callers : Checkout(st, se, l, u)
    \/ \E p \in DOMAIN payments : ConfirmPayment(p)
    \/ \E p \in DOMAIN payments : FailPayment(p)
    \/ \E r \in 1..nextRegId, u \in Callers, f \in 0..2 : Drop(r, u, f)
    \/ \E r \in 1..nextRegId, su \in Subjects, t \in RegistrationTypes, u \in Callers,
          f \in 0..3 : Swap(r, su, t, u, f)
    \/ \E r \in 1..nextRegId, t \in RegistrationTypes, u \in Callers, f \in 0..2 :
          SwitchType(r, t, u, f)
    \/ \E from \in Students, to \in Students, a \in Amounts, u \in Parents, f \in 0..2 :
          Transfer(from, to, a, u, f)
    \/ \E st \in Students, a \in Amounts, u \in Callers : RequestWithdrawal(st, a, u)
    \/ \E q \in 1..(Len(withdrawals) + 1), a \in Amounts, u \in Admins :
          FulfillWithdrawal(q, a, u)
    \/ \E q \in DOMAIN withdrawals, u \in Admins : RejectWithdrawal(q, u)

Spec == Init /\ [][Next]_vars

\* ------- the operations on confirmed registrations, in an open June or November
\* session: the store starts as one checkout and its payment confirmation leave it
EmptyDB ==
    [registrations |-> {}, nextRegId |-> 1, escrow |-> << >>,
     txns |-> [s \in Students |-> << >>], payments |-> << >>, withdrawals |-> << >>,
     swapLog |-> {}]

InitSwap ==
    /\ NoFilesNoAccounts
    /\ subjects = seedSubjects
    /\ sessionTypeOf \in [Sessions -> SessionTypes]
    /\ sessionStatus = [s \in Sessions |-> "active"]
    /\ links = {[id |-> 1, parentId |-> 3, studentId |-> 1, status |-> "approved"],
                [id |-> 2, parentId |-> 3, studentId |-> 2, status |-> "approved"],
                [id |-> 3, parentId |-> 4, studentId |-> 1, status |-> "approved"],
                [id |-> 4, parentId |-> 4, studentId |-> 2, status |-> "pending"]}
    /\ \E st \in Students, se \in Sessions, l \in Lines :
          /\ checkoutResult(EmptyDB, st, se, l, st) = "ok"
          /\ LET D == checkout(EmptyDB, st, se, l)
                 C == confirmAll(D, D.payments[1])
             IN  /\ registrations = C.registrations
                 /\ nextRegId = C.nextRegId
                 /\ escrow = C.escrow
                 /\ txns = C.txns
                 /\ payments = C.payments
                 /\ withdrawals = C.withdrawals
                 /\ swapLog = C.swapLog
    /\ lock = [s \in Students |-> 0]
    /\ inflight = << >>
    /\ rowLimit = MaxSwapRows
    /\ last = Outcome("confirmPayment", "ok", 0)

NextSwap ==
    \/ \E s \in Sessions : CloseSession(s)
    \/ \E s \in Students, a \in CreditAmounts : Credit(s, a)
    \/ \E p \in DOMAIN payments : ConfirmPayment(p)
    \/ \E p \in DOMAIN payments : FailPayment(p)
    \/ \E r \in 1..nextRegId, u \in Callers, f \in 0..2 : Drop(r, u, f)
    \/ \E r \in 1..nextRegId, su \in Subjects, t \in RegistrationTypes, u \in Callers,
          f \in 0..3 : Swap(r, su, t, u, f)
    \/ \E r \in 1..nextRegId, t \in RegistrationTypes, u \in Callers, f \in 0..2 :
          SwitchType(r, t, u, f)

SpecSwap == InitSwap /\ [][NextSwap]_vars

\* ------------------------- concurrent drop and swap requests on one registration
\* A request is validated when it is received and carried out later as one atomic
\* unit; units are serialized, and a unit acts on the rows it reads itself.
Request(kind, registrationId, newSubjectId, newType, userId, result) ==
    [kind |-> kind, registrationId |-> registrationId, newSubjectId |-> newSubjectId,
     newType |-> newType, userId |-> userId, result |-> result]

validateRequest(D, q) ==
    IF q.kind = "drop" THEN validateCanModify(D, q.registrationId, q.userId)
    ELSE swapResult(D, q.registrationId, q.newSubjectId, q.newType, q.userId)

observe_Stale(D, q) == "ok"

\* what the unit observes: the second of two units finds the registration dropped
observe(D, q) == validateRequest(D, q)

applyRequest(D, q) ==
    IF q.kind = "drop" THEN dropSteps(D, q.registrationId, 2)
    ELSE swapSteps(D, q.registrationId, q.newSubjectId, q.newType, 3)

Receive(kind, registrationId, newSubjectId, newType, userId) ==
    LET q == Request(kind, registrationId, newSubjectId, newType, userId, "received")
    IN  /\ Len(inflight) < MaxRequests
        /\ exists(DB, registrationId)
        /\ kind = "drop" => /\ newSubjectId = getRegistration(DB, registrationId).subjectId
                            /\ newType = getRegistration(DB, registrationId).registrationType
        /\ validateRequest(DB, q) = "ok"
        /\ inflight' = Append(inflight, q)
        /\ Rejected
        /\ UNCHANGED <<files, objects, nextFileId, accounts, subjects, sessionTypeOf, sessionStatus, links, lock, rowLimit, last>>

Complete(i) ==
    LET q == inflight[i]
        result == observe(DB, q)
    IN  /\ q.result = "received"
        /\ IF result = "ok" THEN Write(applyRequest(DB, q)) ELSE Rejected
        /\ inflight' = [inflight EXCEPT ![i].result = result]
        /\ last' = Outcome(q.kind, result, 0)
        /\ UNCHANGED <<files, objects, nextFileId, accounts, subjects, sessionTypeOf, sessionStatus, links, lock, rowLimit>>

NextRace ==
    \/ \E s \in Students, a \in CreditAmounts : Credit(s, a)
    \/ \E k \in {"drop", "swap"}, r \in 1..nextRegId, su \in Subjects,
          t \in RegistrationTypes, u \in Callers : Receive(k, r, su, t, u)
    \/ \E i \in DOMAIN inflight : Complete(i)

SpecRace == InitSwap /\ [][NextRace]_vars

\* ------------------------------- the ledger, transfer and withdrawal operations
InitLedger == Start({"june"}, "draft", MaxLedgerRows)

NextLedger ==
    \/ \E s \in Students, a \in CreditAmounts : Credit(s, a)
    \/ \E s \in Students, a \in DebitAmounts : Debit(s, a)
    \/ \E from \in Students, to \in Students, a \in Amounts, u \in Parents, f \in 0..2 :
          Transfer(from, to, a, u, f)
    \/ \E st \in Students, a \in Amounts, u \in Callers : RequestWithdrawal(st, a, u)
    \/ \E q \in 1..(Len(withdrawals) + 1), a \in Amounts, u \in Admins :
          FulfillWithdrawal(q, a, u)
    \/ \E q \in DOMAIN withdrawals, u \in Admins : RejectWithdrawal(q, u)

SpecLedger == InitLedger /\ [][NextLedger]_vars

\* ---------------- withdrawal requests, answered by admins and by other callers
NextWithdrawal ==
    \/ \E s \in Students, a \in CreditAmounts : Credit(s, a)
    \/ \E st \in Students, a \in Amounts, u \in Callers : RequestWithdrawal(st, a, u)
    \/ \E q \in 1..(Len(withdrawals) + 1), a \in Amounts, u \in AdminCallers :
          FulfillWithdrawal(q, a, u)
    \/ \E q \in DOMAIN withdrawals, u \in AdminCallers : RejectWithdrawal(q, u)

SpecWithdrawal == InitLedger /\ [][NextWithdrawal]_vars

\* ------------------------------------ concurrent transfers and their escrow locks
\* A transfer takes the locks of its two escrows one after the other, carries out
\* its atomic unit holding both, and gives both back.
TransferRequest(fromStudentId, toStudentId, amount, parentId, pc, result) ==
    [fromStudentId |-> fromStudentId, toStudentId |-> toStudentId, amount |-> amount,
     parentId |-> parentId, pc |-> pc, result |-> result]

lockOrder_AsGiven(fromStudentId, toStudentId) == <<fromStudentId, toStudentId>>

\* the fixed global order: by studentId
lockOrder(fromStudentId, toStudentId) ==
    IF fromStudentId < toStudentId THEN <<fromStudentId, toStudentId>>
    ELSE <<toStudentId, fromStudentId>>

BeginTransfer(fromStudentId, toStudentId, amount, parentId) ==
    /\ Len(inflight) < MaxTransfers
    /\ fromStudentId # toStudentId
    /\ inflight' = Append(inflight, TransferRequest(fromStudentId, toStudentId, amount,
                                                    parentId, "waiting", "none"))
    /\ Rejected
    /\ UNCHANGED <<files, objects, nextFileId, accounts, subjects, sessionTypeOf, sessionStatus, links, lock, rowLimit, last>>

Acquire(i) ==
    /\ i \in DOMAIN inflight
    /\ inflight[i].pc \in {"waiting", "first"}
    /\ LET q == inflight[i]
           e == lockOrder(q.fromStudentId, q.toStudentId)[IF q.pc = "waiting" THEN 1 ELSE 2]
       IN  /\ lock[e] = 0
           /\ lock' = [lock EXCEPT ![e] = i]
           /\ inflight' = [inflight EXCEPT ![i].pc = IF q.pc = "waiting" THEN "first"
                                                     ELSE "both"]
    /\ Rejected
    /\ UNCHANGED <<files, objects, nextFileId, accounts, subjects, sessionTypeOf, sessionStatus, links, rowLimit, last>>

CommitTransfer(i) ==
    /\ i \in DOMAIN inflight
    /\ inflight[i].pc = "both"
    /\ LET q == inflight[i]
           result == transferResult(DB, q.fromStudentId, q.toStudentId, q.amount, q.parentId)
       IN  /\ IF result = "ok"
              THEN Write(transferEscrow(DB, q.fromStudentId, q.toStudentId, q.amount, 0))
              ELSE Rejected
           /\ inflight' = [inflight EXCEPT ![i].pc = "done", ![i].result = result]
           /\ last' = Outcome("transfer", result, 0)
    /\ lock' = [s \in Students |-> IF lock[s] = i THEN 0 ELSE lock[s]]
    /\ UNCHANGED <<files, objects, nextFileId, accounts, subjects, sessionTypeOf, sessionStatus, links, rowLimit>>

RECURSIVE creditAll(_, _, _)
creditAll(D, S, amount) ==
    IF S = {} THEN D
    ELSE LET s == CHOOSE x \in S : TRUE
         IN  creditAll(creditEscrow(D, s, amount, "drop", NoReg), S \ {s}, amount)

\* some escrows hold a credit when the transfers arrive
InitTransfer ==
    /\ NoFilesNoAccounts
    /\ subjects = seedSubjects
    /\ sessionTypeOf = [s \in Sessions |-> "june"]
    /\ sessionStatus = [s \in Sessions |-> "active"]
    /\ links = {[id |-> 1, parentId |-> 3, studentId |-> 1, status |-> "approved"],
                [id |-> 2, parentId |-> 3, studentId |-> 2, status |-> "approved"],
                [id |-> 3, parentId |-> 4, studentId |-> 1, status |-> "approved"],
                [id |-> 4, parentId |-> 4, studentId |-> 2, status |-> "pending"]}
    /\ \E S \in SUBSET Students, a \in CreditAmounts :
          LET C == creditAll(EmptyDB, S, a)
          IN  /\ registrations = C.registrations
              /\ nextRegId = C.nextRegId
              /\ escrow = C.escrow
              /\ txns = C.txns
              /\ payments = C.payments
              /\ withdrawals = C.withdrawals
              /\ swapLog = C.swapLog
    /\ lock = [s \in Students |-> 0]
    /\ inflight = << >>
    /\ rowLimit = MaxLedgerRows
    /\ last = Outcome("credit", "ok", 0)

NextTransfer ==
    \/ \E from \in Students, to \in Students, a \in DebitAmounts, u \in Parents :
          BeginTransfer(from, to, a, u)
    \/ \E i \in 1..MaxTransfers : Acquire(i)
    \/ \E i \in 1..MaxTransfers : CommitTransfer(i)

\* a request handler that can take its next step is not held back for ever
SpecTransfer ==
    /\ InitTransfer
    /\ [][NextTransfer]_vars
    /\ \A i \in 1..MaxTransfers : WF_vars(Acquire(i)) /\ WF_vars(CommitTransfer(i))

\* ------------- reclamation of an unpaid payment racing with its late confirmation
\* Both are validated when received and carried out later as serialized atomic
\* units that read the registrations themselves.
PaymentRequest(kind, paymentId, result) ==
    [kind |-> kind, paymentId |-> paymentId, result |-> result]

settleResult(D, q) ==
    IF q.kind = "confirm"
    THEN IF \A i \in D.payments[q.paymentId] : canConfirm(D, i)
         THEN "ok" ELSE "InvalidTransition"
    ELSE IF \E i \in D.payments[q.paymentId] : canConfirm(D, i)
         THEN "ok" ELSE "InvalidTransition"

settle(D, q) ==
    IF q.kind = "confirm" THEN confirmAll(D, D.payments[q.paymentId])
    ELSE release(D, D.payments[q.paymentId])

ReceivePayment(kind, paymentId) ==
    LET q == PaymentRequest(kind, paymentId, "received")
    IN  /\ Len(inflight) < MaxRequests
        /\ paymentId \in DOMAIN payments
        /\ settleResult(DB, q) = "ok"
        /\ inflight' = Append(inflight, q)
        /\ Rejected
        /\ UNCHANGED <<files, objects, nextFileId, accounts, subjects, sessionTypeOf, sessionStatus, links, lock, rowLimit, last>>

Settle(i) ==
    LET q == inflight[i]
        result == settleResult(DB, q)
    IN  /\ q.result = "received"
        /\ IF result = "ok" THEN Write(settle(DB, q)) ELSE Rejected
        /\ inflight' = [inflight EXCEPT ![i].result = result]
        /\ last' = Outcome(IF q.kind = "confirm" THEN "confirmPayment" ELSE "failPayment",
                           result, 0)
        /\ UNCHANGED <<files, objects, nextFileId, accounts, subjects, sessionTypeOf, sessionStatus, links, lock, rowLimit>>

\* the store after one checkout, by a student whose escrow may hold a credit
InitReclaim ==
    /\ NoFilesNoAccounts
    /\ subjects = seedSubjects
    /\ sessionTypeOf \in [Sessions -> SessionTypes]
    /\ sessionStatus = [s \in Sessions |-> "active"]
    /\ links = {[id |-> 1, parentId |-> 3, studentId |-> 1, status |-> "approved"],
                [id |-> 2, parentId |-> 3, studentId |-> 2, status |-> "approved"],
                [id |-> 3, parentId |-> 4, studentId |-> 1, status |-> "approved"],
                [id |-> 4, parentId |-> 4, studentId |-> 2, status |-> "pending"]}
    /\ \E S \in SUBSET Students, a \in CreditAmounts, st \in Students, se \in Sessions,
          l \in Lines :
          LET D == creditAll(EmptyDB, S, a)
              C == checkout(D, st, se, l)
          IN  /\ checkoutResult(D, st, se, l, st) = "ok"
              /\ registrations = C.registrations
              /\ nextRegId = C.nextRegId
              /\ escrow = C.escrow
              /\ txns = C.txns
              /\ payments = C.payments
              /\ withdrawals = C.withdrawals
              /\ swapLog = C.swapLog
    /\ lock = [s \in Students |-> 0]
    /\ inflight = << >>
    /\ rowLimit = MaxRows
    /\ last = Outcome("checkout", "ok", 0)

NextReclaim ==
    \/ \E k \in {"confirm", "reclaim"}, p \in DOMAIN payments : ReceivePayment(k, p)
    \/ \E i \in DOMAIN inflight : Settle(i)

SpecReclaim == InitReclaim /\ [][NextReclaim]_vars

\* -------------------------------------------------------------- link service
Link(id, parentId, studentId, status) ==
    [id |-> id, parentId |-> parentId, studentId |-> studentId, status |-> status]

\* randomUUID(): an id no row of the table has
freshLinkId(L) == CHOOSE i \in 1..(Cardinality(L) + 1) : \A l \in L : l.id # i

\* the rows the existence check of createLinkRequest can find: pending or approved
existingLink(L, parentId, studentId) ==
    {l \in L : /\ l.parentId = parentId /\ l.studentId = studentId
               /\ l.status \in {"pending", "approved"}}

linkError(found) ==
    IF found.status = "approved" THEN "Already linked to this student"
    ELSE "Link request already pending"

insertLink(L, parentId, studentId) ==
    L \cup {Link(freshLinkId(L), parentId, studentId, "pending")}

LinkFrame ==
    UNCHANGED <<files, objects, nextFileId, accounts, subjects, sessionTypeOf, sessionStatus, registrations, nextRegId, escrow, txns,
                payments, withdrawals, swapLog, lock, inflight, rowLimit>>

\* the whole call with no other call in between
CreateLinkRequest(parentId, identifier) ==
    /\ Ready
    /\ IF identifier \notin Students
       THEN /\ links' = links
            /\ last' = Outcome("createLinkRequest", "Student not found", 0)
       ELSE IF existingLink(links, parentId, identifier) # {}
       THEN /\ links' = links
            /\ \E found \in existingLink(links, parentId, identifier) :
                  last' = Outcome("createLinkRequest", linkError(found), 0)
       ELSE /\ Cardinality(links) < MaxLinkRows
            /\ links' = insertLink(links, parentId, identifier)
            /\ last' = Outcome("createLinkRequest", "ok", 0)
    /\ LinkFrame

RespondToLinkRequest(linkId, studentId, status) ==
    /\ Ready
    /\ IF \E l \in links : l.id = linkId /\ l.studentId = studentId /\ l.status = "pending"
       THEN /\ links' = {IF l.id = linkId THEN [l EXCEPT !.status = status] ELSE l :
                            l \in links}
            /\ last' = Outcome("respondToLinkRequest", "ok", 0)
       ELSE /\ links' = links
            /\ last' = Outcome("respondToLinkRequest",
                               "Link request not found or already processed", 0)
    /\ LinkFrame

DeleteLink(linkId) ==
    /\ Ready
    /\ links' = {l \in links : l.id # linkId}
    /\ last' = Outcome("deleteLink", "ok", 0)
    /\ LinkFrame

\* ------- the operations on confirmed registrations while links are requested,
\* answered and deleted
InitAuth ==
    /\ NoFilesNoAccounts
    /\ subjects = seedSubjects
    /\ sessionTypeOf \in [Sessions -> SessionTypes]
    /\ sessionStatus = [s \in Sessions |-> "active"]
    /\ links = {}
    /\ \E st \in Students, se \in Sessions, l \in Lines :
          /\ checkoutResult(EmptyDB, st, se, l, st) = "ok"
          /\ LET D == checkout(EmptyDB, st, se, l)
                 C == confirmAll(D, D.payments[1])
             IN  /\ registrations = C.registrations
                 /\ nextRegId = C.nextRegId
                 /\ escrow = C.escrow
                 /\ txns = C.txns
                 /\ payments = C.payments
                 /\ withdrawals = C.withdrawals
                 /\ swapLog = C.swapLog
    /\ lock = [s \in Students |-> 0]
    /\ inflight = << >>
    /\ rowLimit = MaxAuthRows
    /\ last = Outcome("confirmPayment", "ok", 0)

NextAuth ==
    \/ \E p \in Callers \cap Parents, s \in Students \cup Admins : CreateLinkRequest(p, s)
    \/ \E l \in links, s \in Students, r \in {"approved", "rejected"} :
          RespondToLinkRequest(l.id, s, r)
    \/ \E l \in links : DeleteLink(l.id)
    \/ \E s \in Sessions : CloseSession(s)
    \/ \E r \in 1..nextRegId, u \in Callers : Drop(r, u, 0)
    \/ \E r \in 1..nextRegId, su \in Subjects, t \in RegistrationTypes, u \in Callers :
          Swap(r, su, t, u, 0)
    \/ \E r \in 1..nextRegId, t \in RegistrationTypes, u \in Callers :
          SwitchType(r, t, u, 0)

SpecAuth == InitAuth /\ [][NextAuth]_vars

\* ----------------------------------------------------------- subject service
\* updateSubject(id, data): an admin sets one of the price fields
UpdateSubject(subjectId, field, price) ==
    /\ Ready
    /\ subjects[subjectId][field] # price
    /\ subjects' = [subjects EXCEPT ![subjectId][field] = price]
    /\ last' = Outcome("updateSubject", "ok", 0)
    /\ Rejected
    /\ UNCHANGED <<files, objects, nextFileId, accounts, sessionTypeOf, sessionStatus, links, lock, inflight, rowLimit>>

\* ------- checkout and the operations on confirmed registrations in an open
\* November session, while an admin edits subject prices
InitPrice == Start({"november"}, "active", MaxPriceRows)

NextPrice ==
    \/ \E su \in EditedSubjects, f \in {"priceInSchool", "priceExternal"}, p \in EditPrices :
          UpdateSubject(su, f, p)
    \/ \E st \in Students, se \in Sessions, l \in Lines : Checkout(st, se, l, st)
    \/ \E p \in DOMAIN payments : ConfirmPayment(p)
    \/ \E r \in 1..nextRegId, u \in Students : Drop(r, u, 0)
    \/ \E r \in 1..nextRegId, su \in Subjects, t \in RegistrationTypes, u \in Students :
          Swap(r, su, t, u, 0)
    \/ \E r \in 1..nextRegId, t \in RegistrationTypes, u \in Students :
          SwitchType(r, t, u, 0)

SpecPrice == InitPrice /\ [][NextPrice]_vars

\* what a step of a createLinkRequest call leaves alone
LinkFrameOfCall ==
    UNCHANGED <<files, objects, nextFileId, accounts, subjects, sessionTypeOf, sessionStatus, registrations, nextRegId, escrow, txns,
                payments, withdrawals, swapLog, lock, rowLimit, last>>

\* --------------------------------------- concurrent calls of createLinkRequest
\* A call awaits each of its queries, and other calls run in between: the
\* existence check and the insert of one call are two steps.
LinkCall(parentId, studentId, pc, result) ==
    [parentId |-> parentId, studentId |-> studentId, pc |-> pc, result |-> result]

\* the call looks for a pending or approved link, and throws if it finds one
CheckExistingLink(parentId, studentId) ==
    /\ Len(inflight) < MaxRequests
    /\ IF existingLink(links, parentId, studentId) # {}
       THEN \E found \in existingLink(links, parentId, studentId) :
               inflight' = Append(inflight,
                               LinkCall(parentId, studentId, "done", linkError(found)))
       ELSE inflight' = Append(inflight, LinkCall(parentId, studentId, "insert", "none"))
    /\ UNCHANGED links
    /\ LinkFrameOfCall

\* the call inserts its pending row and returns it
InsertLink(i) ==
    /\ inflight[i].pc = "insert"
    /\ links' = insertLink(links, inflight[i].parentId, inflight[i].studentId)
    /\ inflight' = [inflight EXCEPT ![i] = [@ EXCEPT !.pc = "done", !.result = "ok"]]
    /\ LinkFrameOfCall

InitLinks ==
    /\ NoFilesNoAccounts
    /\ subjects = seedSubjects
    /\ sessionTypeOf = [s \in Sessions |-> "june"]
    /\ sessionStatus = [s \in Sessions |-> "draft"]
    /\ links = {}
    /\ registrations = {}
    /\ nextRegId = 1
    /\ escrow = << >>
    /\ txns = [s \in Students |-> << >>]
    /\ payments = << >>
    /\ withdrawals = << >>
    /\ swapLog = {}
    /\ lock = [s \in Students |-> 0]
    /\ inflight = << >>
    /\ rowLimit = 0
    /\ last = Outcome("init", "ok", 0)

NextLinks ==
    \/ \E p \in Parents, s \in Students : CheckExistingLink(p, s)
    \/ \E i \in DOMAIN inflight : InsertLink(i)
    \/ \E l \in {x \in links : x.status = "pending"}, r \in {"approved", "rejected"} :
          RespondToLinkRequest(l.id, l.studentId, r)
    \/ \E l \in links : DeleteLink(l.id)

SpecLinks == InitLinks /\ [][NextLinks]_vars

\* ------------------------------------ concurrent calls of respondToLinkRequest
\* The lookup of the pending row and the update of its status are two awaited
\* queries of one call, and other calls run in between.
RespondCall(linkId, studentId, status, pc, result) ==
    [linkId |-> linkId, studentId |-> studentId, status |-> status, pc |-> pc,
     result |-> result]

\* the row the call must find: that id, that student, still pending
pendingLink(L, linkId, studentId) ==
    {l \in L : l.id = linkId /\ l.studentId = studentId /\ l.status = "pending"}

FindPendingLink(linkId, studentId, status) ==
    /\ Len(inflight) < MaxRequests
    /\ inflight' = Append(inflight,
            IF pendingLink(links, linkId, studentId) = {}
            THEN RespondCall(linkId, studentId, status, "done",
                             "Link request not found or already processed")
            ELSE RespondCall(linkId, studentId, status, "update", "none"))
    /\ UNCHANGED links
    /\ LinkFrameOfCall

\* the update is by id alone
UpdateLinkStatus(i) ==
    /\ inflight[i].pc = "update"
    /\ links' = {IF l.id = inflight[i].linkId
                  THEN [l EXCEPT !.status = inflight[i].status] ELSE l : l \in links}
    /\ inflight' = [inflight EXCEPT ![i] = [@ EXCEPT !.pc = "done", !.result = "ok"]]
    /\ LinkFrameOfCall

NextRespond ==
    \/ \E p \in Parents, s \in Students : CreateLinkRequest(p, s)
    \/ \E l \in 1..MaxLinkRows, s \in Students, r \in {"approved", "rejected"} :
          FindPendingLink(l, s, r)
    \/ \E i \in DOMAIN inflight : UpdateLinkStatus(i)

SpecRespond == InitLinks /\ [][NextRespond]_vars

\* ------------------------- student setup and parent setup of a new account
\* A request reads the session user, then the route looks at the role it read
\* and, if none is set, awaits the update of the user row; other requests run
\* in between.
SetupCall(userId, kind, grade, pc, result) ==
    [userId |-> userId, kind |-> kind, grade |-> grade, pc |-> pc, result |-> result]

SetupFrame ==
    UNCHANGED <<files, objects, nextFileId, subjects, sessionTypeOf, sessionStatus, links,
                registrations, nextRegId, escrow, txns, payments, withdrawals, swapLog,
                lock, rowLimit, last>>

\* the session middleware reads the user row; the route refuses a user whose role
\* is set
GetSessionUser(userId, kind, grade) ==
    /\ Len(inflight) < MaxRequests
    /\ inflight' = Append(inflight,
            IF accounts[userId].role # NoRole
            THEN SetupCall(userId, kind, grade, "done", "400 Account already configured")
            ELSE SetupCall(userId, kind, grade, "update", "none"))
    /\ UNCHANGED accounts
    /\ SetupFrame

\* a generated student id no user row has, then the update by user id
SetStudentFields(i, studentId) ==
    /\ inflight[i].pc = "update"
    /\ inflight[i].kind = "student"
    /\ \A a \in DOMAIN accounts : accounts[a].studentId # studentId
    /\ accounts' = [accounts EXCEPT ![inflight[i].userId] =
                       [role |-> "student", grade |-> inflight[i].grade,
                        studentId |-> studentId]]
    /\ inflight' = [inflight EXCEPT ![i] = [@ EXCEPT !.pc = "done", !.result = "201"]]
    /\ SetupFrame

SetUserRole(i) ==
    /\ inflight[i].pc = "update"
    /\ inflight[i].kind = "parent"
    /\ accounts' = [accounts EXCEPT ![inflight[i].userId].role = "parent"]
    /\ inflight' = [inflight EXCEPT ![i] = [@ EXCEPT !.pc = "done", !.result = "201"]]
    /\ SetupFrame

NextSetup ==
    \/ \E a \in NewAccounts, g \in {10, 11, 12} : GetSessionUser(a, "student", g)
    \/ \E a \in NewAccounts : GetSessionUser(a, "parent", NoGrade)
    \/ \E i \in DOMAIN inflight, id \in 1..MaxRequests : SetStudentFields(i, id)
    \/ \E i \in DOMAIN inflight : SetUserRole(i)

SpecSetup == InitLinks /\ [][NextSetup]_vars

\* -------------------------------------------------------------- file service
File(id, userId, fileType) == [id |-> id, userId |-> userId, fileType |-> fileType]

\* the row with that id if the user owns it
getUserFile(F, fileId, userId) == {f \in F : f.id = fileId /\ f.userId = userId}

isFileOwner(F, fileId, userId) == getUserFile(F, fileId, userId) # {}

FileFrame ==
    UNCHANGED <<accounts, subjects, sessionTypeOf, sessionStatus, links, registrations,
                nextRegId, escrow, txns, payments, withdrawals, swapLog, lock, inflight,
                rowLimit>>

\* uploadFile: the objects are put in the bucket, then the row is inserted
UploadFile(userId, fileType) ==
    /\ Ready
    /\ nextFileId <= MaxFiles
    /\ objects' = objects \cup {nextFileId}
    /\ files' = files \cup {File(nextFileId, userId, fileType)}
    /\ nextFileId' = nextFileId + 1
    /\ last' = Outcome("uploadFile", "ok", 0)
    /\ FileFrame

\* what DELETE /files/:id answers: the route's ownership check unless admin, then
\* deleteFile(id, user.id), whose errors the route answers with 400
deleteResult(F, fileId, userId) ==
    IF ~isAdmin(userId) /\ ~isFileOwner(F, fileId, userId)
    THEN "404 File not found or access denied"
    ELSE IF getUserFile(F, fileId, userId) = {} THEN "400 File not found"
    ELSE "ok"

\* fault 1: the storage delete throws; fault 2: the database delete throws
DeleteFile(fileId, userId, fault) ==
    LET result == deleteResult(files, fileId, userId)
    IN  /\ Ready
        /\ IF result = "ok"
           THEN /\ objects' = IF fault = 1 THEN objects ELSE objects \ {fileId}
                /\ files' = IF fault > 0 THEN files ELSE {f \in files : f.id # fileId}
                /\ last' = Outcome("deleteFile", IF fault > 0 THEN "400 Delete failed"
                                                 ELSE "ok", 0)
           ELSE /\ fault = 0
                /\ UNCHANGED <<files, objects>>
                /\ last' = Outcome("deleteFile", result, 0)
        /\ UNCHANGED nextFileId
        /\ FileFrame

InitFiles == Start({"june"}, "draft", MaxRows)

NextFiles ==
    \/ \E u \in Users, t \in {"document", "general"} : UploadFile(u, t)
    \/ \E f \in 1..MaxFiles, u \in Users, x \in 0..2 : DeleteFile(f, u, x)

SpecFiles == InitFiles /\ [][NextFiles]_vars

\* ------------------------------------------- concurrent avatar uploads
\* updateUserAvatar awaits the lookup of the old avatar, its deletion, the upload
\* to the bucket and the insert of the file row; other requests run in between.
\* fileId is the old avatar while it is being deleted, then the new file.
AvatarCall(userId, pc, fileId, result) ==
    [userId |-> userId, pc |-> pc, fileId |-> fileId, result |-> result]

AvatarFrame ==
    UNCHANGED <<accounts, subjects, sessionTypeOf, sessionStatus, links, registrations,
                nextRegId, escrow, txns, payments, withdrawals, swapLog, lock, rowLimit,
                last>>

\* findFirst of an avatar row of the user
FindAvatar(userId) ==
    /\ Len(inflight) < MaxRequests
    /\ LET existing == {f \in files : f.userId = userId /\ f.fileType = "avatar"}
       IN  IF existing = {}
           THEN inflight' = Append(inflight, AvatarCall(userId, "upload", 0, "none"))
           ELSE \E f \in existing :
                   inflight' = Append(inflight, AvatarCall(userId, "delete", f.id, "none"))
    /\ UNCHANGED <<files, objects, nextFileId>>
    /\ AvatarFrame

\* deleteFile of the old avatar; it throws when the row is gone (fault 0), when
\* the storage delete fails (fault 1) or when the database delete fails (fault 2)
DeleteOldAvatar(i, fault) ==
    LET call == inflight[i]
        found == getUserFile(files, call.fileId, call.userId) # {}
    IN  /\ call.pc = "delete"
        /\ ~found => fault = 0
        /\ objects' = IF found /\ fault # 1 THEN objects \ {call.fileId} ELSE objects
        /\ files' = IF found /\ fault = 0 THEN {f \in files : f.id # call.fileId}
                    ELSE files
        /\ inflight' = [inflight EXCEPT ![i] =
               IF ~found THEN [@ EXCEPT !.pc = "done", !.result = "400 File not found"]
               ELSE IF fault > 0 THEN [@ EXCEPT !.pc = "done", !.result = "400 Delete failed"]
               ELSE [@ EXCEPT !.pc = "upload"]]
        /\ UNCHANGED nextFileId
        /\ AvatarFrame

\* uploadFile: the upload to the bucket (fault 1: it throws)
PutObject(i, fault) ==
    /\ inflight[i].pc = "upload"
    /\ nextFileId <= MaxFiles
    /\ IF fault = 1
       THEN /\ inflight' = [inflight EXCEPT ![i] =
                               [@ EXCEPT !.pc = "done", !.result = "400 Upload failed"]]
            /\ UNCHANGED <<objects, nextFileId>>
       ELSE /\ objects' = objects \cup {nextFileId}
            /\ nextFileId' = nextFileId + 1
            /\ inflight' = [inflight EXCEPT ![i] =
                               [@ EXCEPT !.pc = "insert", !.fileId = nextFileId]]
    /\ UNCHANGED files
    /\ AvatarFrame

\* uploadFile: the insert of the file row (fault 1: it throws)
InsertFile(i, fault) ==
    /\ inflight[i].pc = "insert"
    /\ IF fault = 1
       THEN /\ inflight' = [inflight EXCEPT ![i] =
                               [@ EXCEPT !.pc = "done", !.result = "400 Upload failed"]]
            /\ UNCHANGED files
       ELSE /\ files' = files \cup {File(inflight[i].fileId, inflight[i].userId, "avatar")}
            /\ inflight' = [inflight EXCEPT ![i] = [@ EXCEPT !.pc = "done", !.result = "201"]]
    /\ UNCHANGED <<objects, nextFileId>>
    /\ AvatarFrame

NextAvatar ==
    \/ \E u \in Students : FindAvatar(u)
    \/ \E i \in DOMAIN inflight, x \in 0..2 : DeleteOldAvatar(i, x)
    \/ \E i \in DOMAIN inflight, x \in 0..1 : PutObject(i, x)
    \/ \E i \in DOMAIN inflight, x \in 0..1 : InsertFile(i, x)

SpecAvatar == InitFiles /\ [][NextAvatar]_vars

\* ------------- checkout with escrow applied, and the outcome of its payment
InitCheckout == Start(SessionTypes, "active", MaxSwapRows)

NextCheckout ==
    \/ \E s \in Students, a \in CreditAmounts : Credit(s, a)
    \/ \E st \in Students, se \in Sessions, l \in Lines, u \in Callers : Checkout(st, se, l, u)
    \/ \E p \in DOMAIN payments : ConfirmPayment(p)
    \/ \E p \in DOMAIN payments : FailPayment(p)

SpecCheckout == InitCheckout /\ [][NextCheckout]_vars

\* ==================================================================== claims
\* What the claims say, in terms of the rows of the store alone.
Balance(studentId) == IF studentId \in DOMAIN escrow THEN escrow[studentId] ELSE 0

StoreUnchanged ==
    UNCHANGED <<registrations, nextRegId, escrow, txns, payments, withdrawals, swapLog>>

Authorized(userId, studentId) ==
    \/ userId = studentId
    \/ \E l \in links : l.parentId = userId /\ l.studentId = studentId /\ l.status = "approved"

NonDroppedRows(studentId, sessionId, subjectId) ==
    {r \in registrations : /\ r.studentId = studentId /\ r.sessionId = sessionId
                           /\ r.subjectId = subjectId /\ r.status # "dropped"}

RowOf(registrationId) == {r \in registrations : r.id = registrationId}

\* the core lock as the claims word it: core subject, grade 10, June session
LockedRow(r) ==
    /\ getSubject(r.subjectId).isCore
    /\ getStudentGrade(r.studentId) = 10
    /\ sessionTypeOf[r.sessionId] = "june"

\* C4: a swap of a confirmed registration A for subject B that does not succeed
\* (a validation fails, or a step inside the atomic unit fails) leaves A confirmed,
\* creates no registration and no payment, and leaves every balance and every
\* transaction log exactly as before the swap.
C4_SwapRollback ==
    [][(last'.op = "swap" /\ last'.result # "ok")
        => \A a \in registrations, su \in Subjects, t \in RegistrationTypes,
              u \in Callers, f \in 0..3 :
               (a.status = "confirmed" /\ Swap(a.id, su, t, u, f))
                   => /\ a \in registrations'
                      /\ registrations' = registrations
                      /\ nextRegId' = nextRegId
                      /\ escrow' = escrow
                      /\ txns' = txns
                      /\ payments' = payments]_vars

C4_Witness ==
    /\ last.op = "swap"
    /\ last.result = "StorageFailure"
    /\ swapLog = {}
    /\ \E a \in registrations : a.status = "confirmed" /\ ~LockedRow(a)

\* C5: there is no reachable state in which a registration A has been dropped by
\* a swap while the replacement registration the swap created for B does not
\* exist, also when the delta was positive and the escrow did not cover it.
C5_NoPartialSwap ==
    \A p \in swapLog :
        (\E a \in RowOf(p.dropped) : a.status = "dropped") => RowOf(p.created) # {}

BalanceAfter(studentId) == IF studentId \in DOMAIN escrow' THEN escrow'[studentId] ELSE 0

\* the sum of the amounts logged with a reason, over a set of students
RECURSIVE LoggedFor(_, _)
LoggedFor(reason, S) ==
    IF S = {} THEN 0
    ELSE LET s == CHOOSE x \in S : TRUE
             hits == {i \in DOMAIN txns[s] : txns[s][i].reason = reason}
             RECURSIVE sum(_)
             sum(I) == IF I = {} THEN 0
                       ELSE LET i == CHOOSE x \in I : TRUE
                            IN  txns[s][i].amount + sum(I \ {i})
         IN  sum(hits) + LoggedFor(reason, S \ {s})

\* C7: a fulfillWithdrawal succeeds only if releasedAmount <= requestedAmount and
\* releasedAmount <= the balance at that moment; otherwise it fails with
\* InsufficientFunds and leaves the requests, the balances and the logs unchanged;
\* no request ever records a released amount above its requested amount.
C7_WithdrawalBound ==
    /\ [](\A q \in DOMAIN withdrawals :
             withdrawals[q].releasedAmount <= withdrawals[q].requestedAmount)
    /\ [][last'.op = "fulfillWithdrawal"
            => \A q \in DOMAIN withdrawals, a \in Amounts, u \in Admins :
                 FulfillWithdrawal(q, a, u)
                     => LET within == /\ a <= withdrawals[q].requestedAmount
                                      /\ a <= Balance(withdrawals[q].studentId)
                        IN  /\ last'.result = "ok" => within
                            /\ ~within => /\ last'.result = "InsufficientFunds"
                                          /\ withdrawals' = withdrawals
                                          /\ escrow' = escrow
                                          /\ txns' = txns]_vars

C7_Witness ==
    /\ last.op = "fulfillWithdrawal"
    /\ last.result = "InsufficientFunds"
    /\ \E q, p \in DOMAIN withdrawals :
          /\ q # p
          /\ withdrawals[q].studentId = withdrawals[p].studentId
          /\ withdrawals[q].status = "fulfilled"
          /\ withdrawals[p].status = "pending"
          /\ withdrawals[p].requestedAmount > Balance(withdrawals[p].studentId)

\* C8: a successful transfer lowers the source balance by amount, raises the
\* destination balance by amount and appends exactly one transfer_out debit to the
\* source log and one transfer_in credit to the destination log; a transfer that
\* does not succeed, as every transfer of more than the source balance (which
\* fails with InsufficientFunds), changes no balance and no log; in every state
\* the transfer_out amounts and the transfer_in amounts add up to the same.
C8_TransferAllOrNothing ==
    /\ [](LoggedFor("transfer_out", Students) = LoggedFor("transfer_in", Students))
    /\ [][last'.op = "transfer"
            => \A from \in Students, to \in Students, a \in Amounts, u \in Parents,
                  f \in 0..2 :
                 Transfer(from, to, a, u, f)
                     => /\ a > Balance(from) => last'.result = "InsufficientFunds"
                        /\ IF last'.result = "ok"
                           THEN /\ BalanceAfter(from) = Balance(from) - a
                                /\ BalanceAfter(to) = Balance(to) + a
                                /\ BalanceAfter(from) + BalanceAfter(to)
                                      = Balance(from) + Balance(to)
                                /\ \E d \in [type : {"debit"}, amount : {a},
                                             reason : {"transfer_out"},
                                             relatedRegistrationId : {NoReg}] :
                                      txns'[from] = Append(txns[from], d)
                                /\ \E c \in [type : {"credit"}, amount : {a},
                                             reason : {"transfer_in"},
                                             relatedRegistrationId : {NoReg}] :
                                      txns'[to] = Append(txns[to], c)
                           ELSE escrow' = escrow /\ txns' = txns]_vars

C8_Witness ==
    /\ last.op = "transfer"
    /\ last.result = "ok"
    /\ \E from \in Students, to \in Students :
          /\ from # to
          /\ \E i \in DOMAIN txns[from] : txns[from][i].reason = "transfer_out"
          /\ \E i \in DOMAIN txns[to] : txns[to][i].reason = "transfer_in"
          /\ Balance(to) > 0

\* C9: of the drop and swap requests received for one confirmed registration and
\* carried out, exactly one succeeds; every other one observes the dropped
\* registration and fails with InvalidTransition, so no two succeed; and the
\* escrow is credited for that registration at most once.
C9_OneWinner ==
    \A r \in 1..(nextRegId - 1) :
        LET answered == {i \in DOMAIN inflight : /\ inflight[i].registrationId = r
                                                  /\ inflight[i].result # "received"}
            won == {i \in answered : inflight[i].result = "ok"}
        IN  /\ answered # {} => Cardinality(won) = 1
            /\ \A i \in answered \ won : inflight[i].result = "InvalidTransition"
            /\ \A s \in Students :
                  Cardinality({k \in DOMAIN txns[s] :
                                  /\ txns[s][k].type = "credit"
                                  /\ txns[s][k].relatedRegistrationId = r}) <= 1

C9_Witness ==
    \E i, j \in DOMAIN inflight :
        /\ inflight[i].registrationId = inflight[j].registrationId
        /\ inflight[i].result = "ok"
        /\ inflight[j].result = "InvalidTransition"
        /\ \E a \in RowOf(inflight[i].registrationId) : a.status = "dropped"
        /\ \E s \in Students : \E k \in DOMAIN txns[s] :
              /\ txns[s][k].type = "credit"
              /\ txns[s][k].relatedRegistrationId = inflight[i].registrationId

\* C10: every transfer in flight, two transfers in opposite directions between the
\* same two students among them, eventually completes, and a completed transfer
\* whose parent is linked to both students has succeeded or failed with
\* InsufficientFunds.
C10_TransfersComplete ==
    /\ \A i \in 1..MaxTransfers :
          [](i \in DOMAIN inflight
                => <>(i \in DOMAIN inflight /\ inflight[i].pc = "done"))
    /\ [](\A i \in DOMAIN inflight :
             (/\ inflight[i].pc = "done"
              /\ Authorized(inflight[i].parentId, inflight[i].fromStudentId)
              /\ Authorized(inflight[i].parentId, inflight[i].toStudentId))
                => inflight[i].result \in {"ok", "InsufficientFunds"})

C10_Witness ==
    \E i, j \in DOMAIN inflight :
        /\ inflight[i].fromStudentId = inflight[j].toStudentId
        /\ inflight[i].toStudentId = inflight[j].fromStudentId
        /\ inflight[i].pc = "done" /\ inflight[j].pc = "done"
        /\ inflight[i].result = "ok"
        /\ inflight[j].result \in {"ok", "InsufficientFunds"}

\* C11: of a reclamation and a late confirmation of the same unpaid payment, both
\* carried out, exactly one takes effect and the other fails with
\* InvalidTransition without changing the store; the registrations of the payment
\* are then either all confirmed or all released, never both; every balance equals
\* the signed sum of its transactions.
C11_ReclaimOrConfirm ==
    /\ [](\A p \in DOMAIN payments :
             LET answered == {i \in DOMAIN inflight : /\ inflight[i].paymentId = p
                                                       /\ inflight[i].result # "received"}
                 won == {i \in answered : inflight[i].result = "ok"}
             IN  /\ answered # {} => Cardinality(won) = 1
                 /\ \A i \in answered \ won : inflight[i].result = "InvalidTransition"
                 /\ \A i \in won :
                       IF inflight[i].kind = "confirm"
                       THEN \A id \in payments[p] :
                               \E r \in RowOf(id) : r.status = "confirmed"
                       ELSE \A id \in payments[p] : RowOf(id) = {})
    /\ [](\A s \in Students : Balance(s) = SignedSum(txns[s]))
    /\ [][\A i \in DOMAIN inflight :
            (Settle(i) /\ inflight'[i].result # "ok") => StoreUnchanged]_vars

C11_Witness ==
    \E i, j \in DOMAIN inflight :
        /\ inflight[i].paymentId = inflight[j].paymentId
        /\ inflight[i].kind = "reclaim" /\ inflight[i].result = "ok"
        /\ inflight[j].kind = "confirm" /\ inflight[j].result = "InvalidTransition"
        /\ \A id \in payments[inflight[i].paymentId] : RowOf(id) = {}
        /\ \E s \in Students : txns[s] # << >>

\* the moves of a registration's status that the lifecycle allows in one step
LifecycleSteps ==
    /\ \A r \in registrations : \A r2 \in registrations' :
          r2.id = r.id
              => \/ r2.status = r.status
                 \/ r.status = "pending_payment" /\ r2.status = "confirmed"
                 \/ r.status = "confirmed" /\ r2.status = "dropped"
    /\ \A r \in registrations : r.status = "dropped" => r \in registrations'

ConfirmOnlyPending ==
    last'.op = "confirmPayment"
        => \A p \in DOMAIN payments :
              (/\ ConfirmPayment(p)
               /\ \E id \in payments[p] :
                     \A r \in RowOf(id) : r.status # "pending_payment")
                  => last'.result = "InvalidTransition" /\ StoreUnchanged

TypedFailures ==
    {"InsufficientFunds", "InvalidTransition", "DuplicateRegistration", "CoreSubjectLocked",
     "ExternalNotAvailable", "SessionNotActive", "Unauthorized", "NotFound",
     "CoreSubjectsMissing", "PaymentRequired"}

NotOffered(subjectId, registrationType) ==
    registrationType = "external" /\ getSubject(subjectId).priceExternal = NoPrice

\* a precondition of a drop, swap or switchType of row r by u fails
CannotModify(r, u) ==
    \/ sessionStatus[r.sessionId] # "active"
    \/ ~Authorized(u, r.studentId)
    \/ r.status # "confirmed"
    \/ LockedRow(r)

\* C13: a checkout, drop, swap, switchType, transfer or fulfillWithdrawal of which
\* a precondition fails (session not active, duplicate registration, registration
\* not confirmed, caller not authorized, core lock, external price not offered,
\* insufficient funds) returns a typed failure (no step with another result is
\* such an operation), and every operation that does not succeed leaves registrations, balances, transaction logs, payments and
\* withdrawal requests exactly as they were.
C13_FailuresMutateNothing ==
    [][/\ last'.result # "ok" => StoreUnchanged
       /\ (last'.op = "checkout" /\ last'.result \notin TypedFailures)
            => \A st \in Students, se \in Sessions, u \in Callers, l \in Lines :
                 (/\ \/ sessionStatus[se] # "active"
                     \/ ~Authorized(u, st)
                     \/ \E su \in DOMAIN l : NonDroppedRows(st, se, su) # {}
                     \/ \E su \in DOMAIN l : NotOffered(su, l[su])
                  /\ Checkout(st, se, l, u))
                    => FALSE
       /\ (last'.op = "drop" /\ last'.result \notin TypedFailures)
            => \A r \in registrations, u \in Callers, f \in 0..2 :
                 (CannotModify(r, u) /\ Drop(r.id, u, f)) => FALSE
       /\ (last'.op = "swap" /\ last'.result \notin TypedFailures)
            => \A r \in registrations, su \in Subjects, t \in RegistrationTypes,
                  u \in Callers, f \in 0..3 :
                 (/\ \/ CannotModify(r, u)
                     \/ NonDroppedRows(r.studentId, r.sessionId, su) # {}
                     \/ NotOffered(su, t)
                  /\ Swap(r.id, su, t, u, f))
                    => FALSE
       /\ (last'.op = "switchType" /\ last'.result \notin TypedFailures)
            => \A r \in registrations, t \in RegistrationTypes, u \in Callers, f \in 0..2 :
                 (/\ CannotModify(r, u) \/ NotOffered(r.subjectId, t)
                  /\ SwitchType(r.id, t, u, f))
                    => FALSE
       /\ (last'.op = "transfer" /\ last'.result \notin TypedFailures)
            => \A from \in Students, to \in Students, a \in Amounts, u \in Parents,
                  f \in 0..2 :
                 (/\ \/ a > Balance(from)
                     \/ ~Authorized(u, from)
                     \/ ~Authorized(u, to)
                  /\ Transfer(from, to, a, u, f))
                    => FALSE
       /\ (last'.op = "fulfillWithdrawal" /\ last'.result \notin TypedFailures)
            => \A q \in DOMAIN withdrawals, a \in Amounts, u \in Admins :
                 (/\ \/ a > withdrawals[q].requestedAmount
                     \/ a > Balance(withdrawals[q].studentId)
                     \/ withdrawals[q].status # "pending"
                  /\ FulfillWithdrawal(q, a, u))
                    => FALSE]_vars

C13_Witness ==
    /\ last.op = "switchType"
    /\ last.result = "ExternalNotAvailable"
    /\ \E r \in registrations : r.status = "confirmed" /\ NotOffered(r.subjectId, "external")

\* the calls of drop, swap and switchType by userId on registration r in this step
ModifiedBy(r, userId) ==
    \/ last'.op = "drop" /\ Drop(r.id, userId, 0)
    \/ last'.op = "swap" /\ \E su \in Subjects, t \in RegistrationTypes :
                                Swap(r.id, su, t, userId, 0)
    \/ last'.op = "switchType" /\ \E t \in RegistrationTypes : SwitchType(r.id, t, userId, 0)

CreatedAtCatalogPrice ==
    \A n \in registrations' :
        (\A r \in registrations : r.id # n.id)
            => n.priceAtRegistration = priceOf(n.subjectId, n.registrationType)

\* a successful drop credits the price recorded on the registration
DropCreditsSnapshot ==
    (last'.op = "drop" /\ last'.result = "ok")
        => \A r \in registrations :
              (\E n \in registrations' : n.id = r.id /\ n.status # r.status)
                  => /\ Balance(r.studentId)' = Balance(r.studentId) + r.priceAtRegistration
                     /\ txns'[r.studentId][Len(txns'[r.studentId])].amount
                            = r.priceAtRegistration

WithdrawalStatuses == {"pending", "partially_fulfilled", "fulfilled", "rejected"}

\* releasedAmount is unset while the request is pending and, once set, is at most
\* requestedAmount
ReleasedWithinRequested ==
    \A q \in DOMAIN withdrawals :
        /\ withdrawals[q].status \in WithdrawalStatuses
        /\ withdrawals[q].status = "pending" => withdrawals[q].releasedAmount = NoAmount
        /\ withdrawals[q].releasedAmount # NoAmount
               => /\ withdrawals[q].releasedAmount >= 0
                  /\ withdrawals[q].releasedAmount <= withdrawals[q].requestedAmount

\* the fulfil and reject calls by userId on request q in this step
AnsweredBy(q, userId) ==
    \/ last'.op = "fulfillWithdrawal" /\ \E a \in Amounts : FulfillWithdrawal(q, a, userId)
    \/ last'.op = "rejectWithdrawal" /\ RejectWithdrawal(q, userId)

\* C17: a WithdrawalRequest starts pending and only moves to partially_fulfilled,
\* fulfilled or rejected; all three are terminal; only an admin principal moves
\* it out of pending; releasedAmount is unset while the request is pending and,
\* once set, is at most requestedAmount.
C17_WithdrawalLifecycle ==
    /\ []ReleasedWithinRequested
    /\ [][/\ Len(withdrawals) <= Len(withdrawals')
          /\ \A q \in DOMAIN withdrawals' :
                q \notin DOMAIN withdrawals
                    => /\ withdrawals'[q].status = "pending"
                       /\ withdrawals'[q].releasedAmount = NoAmount
          /\ \A q \in DOMAIN withdrawals :
                withdrawals'[q] # withdrawals[q]
                    => /\ withdrawals[q].status = "pending"
                       /\ withdrawals'[q].status
                              \in {"partially_fulfilled", "fulfilled", "rejected"}
                       /\ \E u \in Admins : AnsweredBy(q, u)
          /\ last'.op \in {"fulfillWithdrawal", "rejectWithdrawal"}
                => \A q \in DOMAIN withdrawals, u \in AdminCallers \ Admins :
                       AnsweredBy(q, u) => last'.result = "Unauthorized" /\ StoreUnchanged
         ]_vars

C17_Witness ==
    /\ last.op = "fulfillWithdrawal"
    /\ last.result = "InvalidTransition"
    /\ \E q \in DOMAIN withdrawals :
          /\ withdrawals[q].status = "partially_fulfilled"
          /\ withdrawals[q].releasedAmount < withdrawals[q].requestedAmount

\* C18: a session's status only moves draft -> active -> closed; it never moves
\* backwards, and closed is terminal.
C18_SessionForwardOnly ==
    [][\A s \in Sessions :
          sessionStatus'[s] # sessionStatus[s]
              => \/ sessionStatus[s] = "draft" /\ sessionStatus'[s] = "active"
                 \/ sessionStatus[s] = "active" /\ sessionStatus'[s] = "closed"]_vars

C18_Witness ==
    /\ last.op = "activateSession"
    /\ last.result = "InvalidTransition"
    /\ \E s \in Sessions : sessionStatus[s] = "closed"

\* the subjects of the student's confirmed registrations in the session
ConfirmedSubjectIds(studentId, sessionId) ==
    {r.subjectId : r \in {x \in registrations : /\ x.studentId = studentId
                                                /\ x.sessionId = sessionId
                                                /\ x.status = "confirmed"}}

CoreSubjectIds == {su \in Subjects : subjects[su].isCore}

MustHoldCore(studentId, sessionId) ==
    getStudentGrade(studentId) = 10 /\ sessionTypeOf[sessionId] = "june"

\* C19: a grade-10 student who has any non-dropped registration in a June session
\* has non-dropped registrations for every core subject in that session; checkout
\* and swap are rejected when the resulting subject set (existing confirmed plus
\* newly requested, minus the swapped-out subject) would miss a core subject:
\* no step that succeeds or changes the store is such a checkout or swap.
C19_CoreCompleteness ==
    /\ [](\A st \in Students, se \in Sessions :
             (MustHoldCore(st, se)
                  /\ \E r \in registrations :
                        r.studentId = st /\ r.sessionId = se /\ r.status # "dropped")
                 => \A c \in CoreSubjectIds : NonDroppedRows(st, se, c) # {})
    /\ [][/\ (last'.op = "checkout" /\ ~(last'.result # "ok" /\ StoreUnchanged))
             => \A st \in Students, se \in Sessions, l \in Lines, u \in Callers :
                   ~(/\ MustHoldCore(st, se)
                     /\ ~(CoreSubjectIds \subseteq
                             (ConfirmedSubjectIds(st, se) \cup DOMAIN l))
                     /\ Checkout(st, se, l, u))
          /\ (last'.op = "swap" /\ ~(last'.result # "ok" /\ StoreUnchanged))
             => \A r \in registrations, su \in Subjects, t \in RegistrationTypes,
                   u \in Callers, f \in 0..3 :
                   ~(/\ MustHoldCore(r.studentId, r.sessionId)
                     /\ ~(CoreSubjectIds \subseteq
                             ((ConfirmedSubjectIds(r.studentId, r.sessionId)
                                  \ {r.subjectId}) \cup {su}))
                     /\ Swap(r.id, su, t, u, f))]_vars

C19_Witness ==
    /\ last.op = "checkout"
    /\ last.result = "CoreSubjectsMissing"
    /\ \E st \in Students, se \in Sessions :
          /\ MustHoldCore(st, se)
          /\ sessionStatus[se] = "active"
          /\ \A r \in registrations : r.studentId = st => r.status # "confirmed"

ActiveLinks(parentId, studentId) ==
    {l \in links : /\ l.parentId = parentId /\ l.studentId = studentId
                   /\ l.status \in {"pending", "approved"}}

\* C20: a parent-student pair has at most one active (pending or approved) link
\* at any time, also when calls of createLinkRequest run concurrently; a call
\* that finds such a link fails with 'Link request already pending' or 'Already
\* linked to this student' and inserts nothing.
C20_OneActiveLink ==
    /\ [](\A p \in Parents, s \in Students : Cardinality(ActiveLinks(p, s)) <= 1)
    /\ [][\A p \in Parents, s \in Students :
             (ActiveLinks(p, s) # {} /\ CheckExistingLink(p, s))
                 => /\ links' = links
                    /\ inflight'[Len(inflight')].result
                           \in {"Link request already pending",
                                "Already linked to this student"}]_vars

FileExists(fileId) == \E f \in files : f.id = fileId

OwnerOf(fileId) == (CHOOSE f \in files : f.id = fileId).userId

\* C21: DELETE /files/:id deletes the file (storage objects and database record)
\* when the caller is the file's owner or has the admin role, for any existing
\* file; any other caller receives 404 and nothing is deleted.
C21_OwnerOrAdminDeletes ==
    [][last'.op = "deleteFile"
         => \A f \in 1..MaxFiles, u \in Users :
               (FileExists(f) /\ DeleteFile(f, u, 0))
                   => IF u = OwnerOf(f) \/ u \in Admins
                      THEN /\ last'.result = "ok"
                           /\ \A x \in files' : x.id # f
                           /\ f \notin objects'
                      ELSE /\ last'.result = "404 File not found or access denied"
                           /\ UNCHANGED <<files, objects>>]_vars

\* the newest transaction of the student's escrow after the step
Appended(studentId) == txns'[studentId][Len(txns'[studentId])]

\* C22: a successful drop of a confirmed registration sets its status to dropped
\* and, in the same atomic unit, credits the student's escrow with exactly the
\* registration's priceAtRegistration (reason drop, relatedRegistrationId set):
\* the balance after is the balance before plus priceAtRegistration and exactly
\* one transaction is appended; a drop that does not succeed changes neither.
C22_DropCredits ==
    [][last'.op = "drop"
         => /\ last'.result # "ok" => StoreUnchanged
            /\ last'.result = "ok"
                 => \A r \in registrations, u \in Callers :
                       Drop(r.id, u, 0)
                           => /\ r.status = "confirmed"
                              /\ registrations'
                                    = (registrations \ {r}) \cup {[r EXCEPT !.status = "dropped"]}
                              /\ Balance(r.studentId)'
                                    = Balance(r.studentId) + r.priceAtRegistration
                              /\ txns' = [txns EXCEPT ![r.studentId] =
                                            Append(@, Appended(r.studentId))]
                              /\ Appended(r.studentId).type = "credit"
                              /\ Appended(r.studentId).amount = r.priceAtRegistration
                              /\ Appended(r.studentId).reason = "drop"
                              /\ Appended(r.studentId).relatedRegistrationId = r.id]_vars

C22_Witness ==
    /\ last.op = "drop"
    /\ last.result = "ok"
    /\ \E r \in registrations :
          /\ r.status = "dropped"
          /\ Balance(r.studentId) >= r.priceAtRegistration
          /\ \E i \in DOMAIN txns[r.studentId] :
                /\ txns[r.studentId][i].reason = "drop"
                /\ txns[r.studentId][i].relatedRegistrationId = r.id

RECURSIVE SumOfLines(_, _)
SumOfLines(lines, S) ==
    IF S = {} THEN 0
    ELSE LET su == CHOOSE x \in S : TRUE
         IN  (IF lines[su] = "in_school" THEN subjects[su].priceInSchool
              ELSE subjects[su].priceExternal) + SumOfLines(lines, S \ {su})

Smaller(a, b) == IF a < b THEN a ELSE b

\* C23: a successful checkout with total = sum of the line prices and balance b
\* before the call debits the escrow by exactly min(b, total) and returns
\* amountDue = total - min(b, total), so amountDue >= 0 and debited + amountDue =
\* total; every created registration is in pending_payment with
\* priceAtRegistration equal to its line price.
C23_CheckoutArithmetic ==
    [][(last'.op = "checkout" /\ last'.result = "ok")
         => \A st \in Students, se \in Sessions, l \in Lines, u \in Callers :
               Checkout(st, se, l, u)
                   => LET tot == SumOfLines(l, DOMAIN l)
                          debited == Balance(st) - Balance(st)'
                      IN  /\ debited = Smaller(Balance(st), tot)
                          /\ last'.amountDue = tot - Smaller(Balance(st), tot)
                          /\ last'.amountDue >= 0
                          /\ debited + last'.amountDue = tot
                          /\ IF debited > 0
                             THEN /\ txns' = [txns EXCEPT ![st] = Append(@, Appended(st))]
                                  /\ Appended(st).type = "debit"
                                  /\ Appended(st).amount = debited
                             ELSE txns' = txns
                          /\ registrations \subseteq registrations'
                          /\ {r.subjectId : r \in registrations' \ registrations} = DOMAIN l
                          /\ Cardinality(registrations' \ registrations)
                                 = Cardinality(DOMAIN l)
                          /\ \A r \in registrations' \ registrations :
                                /\ r.studentId = st
                                /\ r.sessionId = se
                                /\ r.status = "pending_payment"
                                /\ r.registrationType = l[r.subjectId]
                                /\ r.priceAtRegistration
                                       = SumOfLines(l, {r.subjectId})]_vars

C23_Witness ==
    /\ last.op = "checkout"
    /\ last.result = "ok"
    /\ last.amountDue > 0
    /\ \E s \in Students : \E i \in DOMAIN txns[s] :
          txns[s][i].reason = "payment_applied" /\ txns[s][i].amount > 0

CatalogPrice(subjectId, registrationType) ==
    IF registrationType = "in_school" THEN subjects[subjectId].priceInSchool
    ELSE subjects[subjectId].priceExternal

\* the ledger effect of a price difference the escrow covers, on this step
LedgerEffect(studentId, delta) ==
    /\ Balance(studentId)' = Balance(studentId) - delta
    /\ IF delta = 0 THEN txns' = txns
       ELSE /\ txns' = [txns EXCEPT ![studentId] = Append(@, Appended(studentId))]
            /\ Appended(studentId).type = IF delta > 0 THEN "debit" ELSE "credit"
            /\ Appended(studentId).amount = IF delta > 0 THEN delta ELSE 0 - delta
            /\ delta < 0 => Appended(studentId).reason = "swap_refund"

\* C24: after a successful swap of confirmed A for B with delta = priceOf(B, type)
\* - priceAtRegistration(A), where a positive delta is covered by the escrow, A is
\* dropped, B is confirmed, and the balance after is the balance before minus
\* delta (a debit of delta if delta > 0, a credit of -delta with reason
\* swap_refund if delta < 0); when delta = 0 no ledger transaction is appended.
C24_SwapLedgerEffect ==
    [][(last'.op = "swap" /\ last'.result = "ok")
         => \A r \in registrations, su \in Subjects, t \in RegistrationTypes, u \in Callers :
               LET delta == CatalogPrice(su, t) - r.priceAtRegistration
               IN  ((delta <= 0 \/ delta <= Balance(r.studentId)) /\ Swap(r.id, su, t, u, 0))
                       => /\ r.status = "confirmed"
                          /\ [r EXCEPT !.status = "dropped"] \in registrations'
                          /\ \E b \in registrations' :
                                /\ registrations' = (registrations \ {r})
                                       \cup {[r EXCEPT !.status = "dropped"], b}
                                /\ \A x \in registrations : x.id # b.id
                                /\ b.studentId = r.studentId
                                /\ b.sessionId = r.sessionId
                                /\ b.subjectId = su
                                /\ b.registrationType = t
                                /\ b.priceAtRegistration = CatalogPrice(su, t)
                                /\ b.status = "confirmed"
                          /\ LedgerEffect(r.studentId, delta)]_vars

C24_Witness ==
    /\ last.op = "swap"
    /\ last.result = "ok"
    /\ last.amountDue = 0
    /\ \E s \in Students : \E i \in DOMAIN txns[s] : txns[s][i].reason = "swap_charge"
    /\ \E r \in registrations : r.status = "confirmed" /\ r.id > 1

\* a successful switchType rewrites the row in place and applies the ledger entry
\* for the delta; a switchType that does not succeed changes nothing
SwitchInPlace ==
    /\ last'.result # "ok" => StoreUnchanged
    /\ last'.result = "ok"
         => \A r \in registrations, t \in RegistrationTypes, u \in Callers :
               SwitchType(r.id, t, u, 0)
                   => /\ r.status = "confirmed"
                      /\ nextRegId' = nextRegId
                      /\ registrations' = (registrations \ {r})
                             \cup {[r EXCEPT !.registrationType = t,
                                             !.priceAtRegistration =
                                                 CatalogPrice(r.subjectId, t)]}
                      /\ LedgerEffect(r.studentId,
                                      CatalogPrice(r.subjectId, t) - r.priceAtRegistration)

Responding(i) ==
    /\ i \in DOMAIN inflight
    /\ inflight[i].pc = "update"
    /\ UpdateLinkStatus(i)

\* C27: the status of a link changes only from pending to approved or rejected,
\* only in the update of a respondToLinkRequest call made with the link's own
\* studentId; a response to a link that is not pending or is another student's
\* fails with 'Link request not found or already processed' and changes nothing;
\* once approved or rejected the status never changes again, also when an approve
\* and a reject for the same pending link run concurrently.
C27_RespondOnce ==
    [][/\ \A l \in links, n \in links' :
             (n.id = l.id /\ n.status # l.status)
                 => /\ l.status = "pending"
                    /\ n.status \in {"approved", "rejected"}
                    /\ \E i \in DOMAIN inflight :
                          /\ Responding(i)
                          /\ inflight[i].linkId = l.id
                          /\ inflight[i].studentId = l.studentId
                          /\ inflight[i].status = n.status
       /\ \A l \in 1..MaxLinkRows, s \in Students, r \in {"approved", "rejected"} :
             (pendingLink(links, l, s) = {} /\ FindPendingLink(l, s, r))
                 => /\ links' = links
                    /\ inflight'[Len(inflight')].pc = "done"
                    /\ inflight'[Len(inflight')].result
                          = "Link request not found or already processed"]_vars

\* the setup calls of an account that succeeded
Succeeded(userId) ==
    {i \in DOMAIN inflight : inflight[i].userId = userId /\ inflight[i].result = "201"}

\* C28: for any account, of all the student-setup and parent-setup calls,
\* sequential or concurrent, at most one succeeds; every call made once the role
\* is set returns 400 'Account already configured' and leaves role, grade and
\* studentId unchanged.
C28_SetupOnce ==
    /\ [](\A a \in NewAccounts : Cardinality(Succeeded(a)) <= 1)
    /\ [][\A a \in NewAccounts :
             accounts[a].role # NoRole
                 => /\ accounts'[a] = accounts[a]
                    /\ \A k \in {"student", "parent"}, g \in {NoGrade, 10, 11, 12} :
                          GetSessionUser(a, k, g)
                              => inflight'[Len(inflight')].result
                                     = "400 Account already configured"]_vars

\* the avatar rows of a user
Avatars(userId) == {f \in files : f.userId = userId /\ f.fileType = "avatar"}

\* C29: in every state each user has at most one file row of type avatar, after
\* any sequence of avatar uploads, including two uploads that run concurrently
\* and an upload whose storage or database write fails after the old avatar was
\* deleted.
C29_OneAvatar == \A u \in Users : Cardinality(Avatars(u)) <= 1

\* what credit operations paid into the student's escrow; under SpecCheckout they
\* are the only operations on the escrow that are unrelated to a checkout
PaidIn(studentId) == LoggedFor("drop", {studentId})

\* every checkout of the student was released without being confirmed
AllReleased(studentId) ==
    /\ \A r \in registrations : r.studentId # studentId
    /\ \E i \in DOMAIN txns[studentId] : txns[studentId][i].reason = "payment_applied"

\* C30: if a checkout debited d > 0 from the student's escrow and all of its
\* pending_payment registrations are later released by failPayment without ever
\* being confirmed, the balance is restored by a compensating credit of d: once
\* every checkout that applied escrow has been released, the balance equals what
\* the unrelated operations (the credits) paid in.
C30_EscrowRestored ==
    \A s \in Students : AllReleased(s) => Balance(s) = PaidIn(s)
====
